---- MODULE Spec2Model ----
(***************************************************************************)
(* A model of the resilient request layer of Base-Server:                  *)
(*   - ApiClient.request (helpers/api_client.py) over a retrying session,  *)
(*   - the batched-mutation proxies Spreadsheet, Sheet (tasks/             *)
(*     google_sheets.py) and Document (tasks/google_docs.py),              *)
(*   - credential acquisition for Gmail (helpers/email.py, models/         *)
(*     gmail_account.py), Xero (tasks/xero.py, models/xero_client.py) and  *)
(*     the Google suite (tasks/google_drive.py), by one execution and by   *)
(*     two concurrent ones,                                                *)
(*   - the paginated fetch get_journals and the multi-request fetch        *)
(*     get_aged_payables (tasks/xero.py),                                  *)
(*   - the job-polling fetches (tasks/web_scrape.py),                      *)
(*   - ApiClient._prepare_url, Sheet's reads of its snapshot and           *)
(*     value_to_object, Folder.navigate_path, and the retry wrappers of    *)
(*     the Google modules.                                                 *)
(* Each component has its own specification (SpecApi, SpecProxy,           *)
(* SpecCred, SpecRace, SpecPages, SpecPoll, SpecUrl, SpecSheet,            *)
(* SpecPayables, SpecNavigation, SpecWrapper); the variables of the other  *)
(* components keep their initial values.                                   *)
(***************************************************************************)
EXTENDS Integers, Sequences, FiniteSets, TLC

VARIABLES
    \* ---- ApiClient ----
    apiPc,          \* "idle" | "sending" | "received" | "done"
    call,           \* arguments of the request in progress
    splunk,         \* splunk_log_url and splunk_log_headers are set
    attempts,       \* attempts of this call observed by the server
    history,        \* what the retried attempts met: nothing yet, one same
                    \* failure every time, or different ones ("mixed")
    response,       \* the requests.Response bound to `response`, or NoResponse
    transportExc,   \* exception session.request raised, or "none"
    outcome,        \* what request() did: returned value, exception, log, audit
    \* ---- Spreadsheet / Sheet / Document ----
    kind,           \* the class of the proxy: "Spreadsheet" | "Sheet" | "Document"
    requests,       \* self.requests, the queue of pending operation descriptors
    snapshot,       \* the in-memory mirror: json, title_key, sheet_id, ...
    proxyPc,        \* "ready" | "batch" (commit_changes is inside batch_update)
    commit,         \* the commit in progress: update, body, attempt index i
    lastCall,       \* the last call of a public method and its network activity
    server,         \* the remote document: batches applied, sheets it holds
    issued,         \* every descriptor enqueued since the proxy was fetched
    commits,        \* calls of commit_changes since the proxy was fetched
    \* ---- credentials ----
    provider,       \* whose credentials this run is about: "gmail" | "xero" | "suite"
    now,            \* the clock
    idp,            \* the identity provider: tokens issued, refresh token it accepts
    gmailRow,       \* the gmail_accounts row of the mailbox
    xeroRow,        \* the xero_clients row of the client
    env,            \* the GOOGLE_* keys of .env / os.environ
    credCall,       \* the last credential call: result, tokens it holds, what it did
    calls,          \* credential calls made so far
    \* ---- two task executions on the credentials of one account ----
    tasks,          \* per execution: where it is and the credentials it holds
    \* ---- get_journals ----
    ledger,         \* the journals the server holds and how it pages them
    fetcher,        \* the call of get_journals: position, cursor, lines, result
    \* ---- web_scrape ----
    poller,         \* the call of a polling fetch: clock, status GETs, result
    \* ---- ApiClient._prepare_url ----
    resolver,       \* a client's base URL and its last resolved endpoint
    \* ---- Sheet ----
    cell_array,     \* the cells of the last-fetched snapshot
    lookup,         \* the last read or classification and what it returned
    \* ---- get_aged_payables ----
    payables,       \* the call: what its requests met and what it returned
    \* ---- Folder.navigate_path ----
    navigation,     \* the call: its path, the message list before and after
    \* ---- retry wrappers ----
    wrapper         \* the call of a wrapper: attempts, last exception, outcome

apiVars == <<apiPc, call, splunk, attempts, history, response, transportExc, outcome>>

proxyVars == <<kind, requests, snapshot, proxyPc, commit, lastCall, server, issued, commits>>

credVars == <<provider, now, idp, gmailRow, xeroRow, env, credCall, calls>>

raceVars == <<tasks>>

pagesVars == <<ledger, fetcher>>

sheetVars == <<cell_array, lookup>>

vars ==
    <<apiVars, proxyVars, credVars, raceVars, pagesVars, poller, resolver, sheetVars, payables,
      navigation, wrapper>>

\* What the steps of one component leave alone.
notApiVars == <<proxyVars, credVars, raceVars, pagesVars, poller, resolver, sheetVars, payables, navigation, wrapper>>

notProxyVars == <<apiVars, credVars, raceVars, pagesVars, poller, resolver, sheetVars, payables, navigation, wrapper>>

notCredVars == <<apiVars, proxyVars, raceVars, pagesVars, poller, resolver, sheetVars, payables, navigation, wrapper>>

notRaceVars == <<apiVars, proxyVars, pagesVars, poller, resolver, sheetVars, payables, navigation, wrapper>>

notPagesVars == <<apiVars, proxyVars, credVars, raceVars, poller, resolver, sheetVars, payables, navigation, wrapper>>

notPollVars == <<apiVars, proxyVars, credVars, raceVars, pagesVars, resolver, sheetVars, payables, navigation, wrapper>>

notUrlVars == <<apiVars, proxyVars, credVars, raceVars, pagesVars, poller, sheetVars, payables, navigation, wrapper>>

notSheetVars == <<apiVars, proxyVars, credVars, raceVars, pagesVars, poller, resolver, payables, navigation, wrapper>>

notPayablesVars == <<apiVars, proxyVars, credVars, raceVars, pagesVars, poller, resolver, sheetVars, navigation, wrapper>>

notNavigationVars == <<apiVars, proxyVars, credVars, raceVars, pagesVars, poller, resolver, sheetVars, payables, wrapper>>

notWrapperVars == <<apiVars, proxyVars, credVars, raceVars, pagesVars, poller, resolver, sheetVars, payables, navigation>>

(***************************************************************************)
(* ApiClient                                                               *)
(***************************************************************************)

\* ApiClient.__init__(retries=3): Retry(total=retries, ...)
retries == 3

\* Retry(status_forcelist=[429, 500, 502, 503, 504, 204])
status_forcelist == {429, 500, 502, 503, 504, 204}

\* Retry(allowed_methods=['GET', 'POST', 'PUT', 'DELETE'])
allowed_methods == {"GET", "POST", "PUT", "DELETE"}

\* Methods a caller passes to request(): the four wrappers and one other.
Methods == allowed_methods \cup {"PATCH"}

\* Statuses the simulated server answers with.
Statuses == {200, 204, 400, 404, 429, 500, 503}

\* Shapes of a response body.
\*   obj_messages     a JSON object with a 'messages' list of {type, text}
\*   obj              a JSON object without 'messages'
\*   number, null     a JSON number, JSON null
\*   string           a JSON string that does not contain "messages"
\*   string_messages  a JSON string that contains "messages"
\*   list             a JSON list without the element "messages"
\*   list_messages    a JSON list with the element "messages"
\*   text             text that is not JSON;  empty  no body at all
\*   binary           bytes that are neither JSON nor UTF-8
Bodies == {"obj_messages", "obj", "number", "null", "string", "string_messages",
           "list", "list_messages", "text", "empty", "binary"}

IsJson(b) == b \notin {"text", "empty", "binary"}

NoResponse == [kind |-> "none", status |-> 0, body |-> "empty"]

\* What one attempt of the transport meets.
TransportOutcomes ==
    [kind : {"connect_timeout", "read_timeout", "connection_error"},
     status : {0}, body : {"empty"}]
    \cup [kind : {"response"}, status : Statuses, body : Bodies]

\* The failures of the attempts retried so far, without their bodies.
NoHistory == [kind |-> "none", status |-> 0]

Retried(h, o) ==
    LET f == [kind |-> o.kind, status |-> o.status]
    IN IF h = NoHistory \/ h = f THEN f ELSE [kind |-> "mixed", status |-> 0]

NoCall == [method |-> "GET", handle_400 |-> FALSE, raw |-> FALSE, destination |-> FALSE]

NoOutcome == [ret |-> "pending", exc |-> "none", log |-> <<>>, audit |-> <<>>]

LogEntry(level, msg) == [level |-> level, msg |-> msg]

\* urllib3 Retry.is_retry / Retry.increment as configured in __init__:
\* a forcelisted status is retried for an allowed method, a connection error
\* for any method, a read error for an allowed method.
IsRetryable(method, o) ==
    CASE o.kind = "response" -> o.status \in status_forcelist /\ method \in allowed_methods
      [] o.kind = "read_timeout" -> method \in allowed_methods
      [] OTHER -> TRUE

\* The exception session.request raises when the transport gives up on `o`:
\* with retries exhausted requests maps MaxRetryError by its reason; a read
\* timeout that is not retried is raised as it is.
TransportException(method, o) ==
    CASE o.kind = "connect_timeout" -> "Timeout"
      [] o.kind = "read_timeout" ->
            IF method \in allowed_methods THEN "ConnectionError" ELSE "Timeout"
      [] o.kind = "connection_error" -> "ConnectionError"
      [] OTHER -> "RetryError"

\* Response.ok, which is also the truth value of a Response.
ResponseOk(resp) == resp.kind = "response" /\ resp.status < 400

\* except HTTPError as e: ... (response is never None here)
HTTPErrorHandler(c, resp) ==
    IF c.handle_400 /\ resp.status = 400
    THEN [ret |-> "bad_request", exc |-> "none",
          log |-> <<LogEntry("info", "bad_request_accepted")>>]
    ELSE CASE ~IsJson(resp.body) ->
                [ret |-> "None", exc |-> "none",
                 log |-> <<LogEntry("error", "http_error"), LogEntry("error", "raw_response")>>]
           [] resp.body = "obj_messages" ->
                [ret |-> "None", exc |-> "none",
                 log |-> <<LogEntry("error", "api_error")>>]
           [] resp.body \in {"obj", "string", "list"} ->
                [ret |-> "None", exc |-> "none",
                 log |-> <<LogEntry("error", "http_error"), LogEntry("error", "response_json")>>]
           [] OTHER ->
                \* "messages" in 5, "messages" in None, "..."["messages"], [...]["messages"]
                [ret |-> "raised", exc |-> "TypeError", log |-> <<>>]

\* The try block of request() with its except clauses.
TryExcept(c, resp, texc) ==
    CASE texc = "Timeout" ->
            [ret |-> "None", exc |-> "none", log |-> <<LogEntry("error", "timed_out")>>]
      [] texc \in {"ConnectionError", "RetryError"} ->
            [ret |-> "None", exc |-> "none", log |-> <<LogEntry("error", "request_exception")>>]
      [] resp.status >= 400 -> HTTPErrorHandler(c, resp)
      [] c.raw -> [ret |-> "content", exc |-> "none", log |-> <<>>]
      [] IsJson(resp.body) -> [ret |-> "json", exc |-> "none", log |-> <<>>]
      [] OTHER ->
            \* response.json() raises JSONDecodeError, a RequestException
            [ret |-> "None", exc |-> "none", log |-> <<LogEntry("error", "request_exception")>>]

\* log_response(response, destination); sinkOk: the POST to the sink went through.
log_response(resp, configured, sinkOk) ==
    IF ~configured
    THEN [exc |-> "none", log |-> <<LogEntry("warning", "splunk_not_configured")>>, audit |-> <<>>]
    ELSE IF resp.body = "binary"
    THEN [exc |-> "UnicodeDecodeError", log |-> <<>>, audit |-> <<>>]
    ELSE IF sinkOk
    THEN [exc |-> "none", log |-> <<>>,
          audit |-> <<[line |-> "response", status |-> resp.status, body |-> resp.body]>>]
    ELSE [exc |-> "none", log |-> <<LogEntry("error", "splunk_failed")>>, audit |-> <<>>]

\* log_success(success, destination)
log_success(success, configured, sinkOk) ==
    IF ~configured
    THEN [exc |-> "none", log |-> <<LogEntry("warning", "splunk_not_configured")>>, audit |-> <<>>]
    ELSE IF sinkOk
    THEN [exc |-> "none", log |-> <<>>,
          audit |-> <<[line |-> IF success THEN "success" ELSE "failure",
                       status |-> 0, body |-> "empty"]>>]
    ELSE [exc |-> "none", log |-> <<LogEntry("error", "splunk_failed")>>, audit |-> <<>>]

\* The finally block of request().
Finally(c, resp, configured, sinkOk) ==
    IF ~c.destination
    THEN [exc |-> "none", log |-> <<>>, audit |-> <<>>]
    ELSE IF configured /\ ResponseOk(resp)
    THEN log_response(resp, configured, sinkOk)
    ELSE log_success(FALSE, configured, sinkOk)

\* request(): the try block, then the finally block, whose exception wins.
request(c, resp, texc, configured, sinkOk) ==
    LET t == TryExcept(c, resp, texc)
        f == Finally(c, resp, configured, sinkOk)
        exc == IF f.exc # "none" THEN f.exc ELSE t.exc
    IN [ret |-> IF exc # "none" THEN "raised" ELSE t.ret,
        exc |-> exc,
        log |-> t.log \o f.log,
        audit |-> f.audit]

ApiInit ==
    /\ apiPc = "idle"
    /\ call = NoCall
    /\ splunk = FALSE
    /\ attempts = 0
    /\ history = NoHistory
    /\ response = NoResponse
    /\ transportExc = "none"
    /\ outcome = NoOutcome

\* setup_splunk_logging(url, headers)
setup_splunk_logging ==
    /\ apiPc = "idle"
    /\ ~splunk
    /\ splunk' = TRUE
    /\ UNCHANGED <<apiPc, call, attempts, history, response, transportExc, outcome>>
    /\ UNCHANGED notApiVars

\* request(method, endpoint, ...) is entered (get/post/put/delete forward to it).
ApiRequest ==
    /\ apiPc = "idle"
    /\ \E m \in Methods, h \in BOOLEAN, r \in BOOLEAN, d \in BOOLEAN :
          call' = [method |-> m, handle_400 |-> h, raw |-> r, destination |-> d]
    /\ apiPc' = "sending"
    /\ UNCHANGED <<splunk, attempts, history, response, transportExc, outcome>>
    /\ UNCHANGED notApiVars

\* One attempt of session.request after which the transport tries again.
SessionRetry ==
    /\ apiPc = "sending"
    /\ attempts < retries
    /\ \E o \in TransportOutcomes :
          /\ IsRetryable(call.method, o)
          /\ history' = Retried(history, o)
    /\ attempts' = attempts + 1
    /\ UNCHANGED <<apiPc, call, splunk, response, transportExc, outcome>>
    /\ UNCHANGED notApiVars

\* The attempt whose response session.request returns.
SessionReturns ==
    /\ apiPc = "sending"
    /\ \E o \in TransportOutcomes :
          /\ o.kind = "response"
          /\ ~IsRetryable(call.method, o)
          /\ response' = o
    /\ attempts' = attempts + 1
    /\ apiPc' = "received"
    /\ UNCHANGED <<call, splunk, history, transportExc, outcome>>
    /\ UNCHANGED notApiVars

\* The attempt after which session.request raises: retries are exhausted, or
\* the failure is one the transport does not retry.
SessionRaises ==
    /\ apiPc = "sending"
    /\ \E o \in TransportOutcomes :
          /\ \/ IsRetryable(call.method, o) /\ attempts >= retries
             \/ ~IsRetryable(call.method, o) /\ o.kind # "response"
          /\ history' = Retried(history, o)
          /\ transportExc' = TransportException(call.method, o)
    /\ attempts' = attempts + 1
    /\ apiPc' = "received"
    /\ UNCHANGED <<call, splunk, response, outcome>>
    /\ UNCHANGED notApiVars

\* The rest of request(): raise_for_status, json, the handlers, the audit.
ApiComplete ==
    /\ apiPc = "received"
    /\ \E sinkOk \in BOOLEAN :
          outcome' = request(call, response, transportExc, splunk, sinkOk)
    /\ apiPc' = "done"
    /\ UNCHANGED <<call, splunk, attempts, history, response, transportExc>>
    /\ UNCHANGED notApiVars

\* The caller has the result; the client is ready for the next call.
ApiReturn ==
    /\ apiPc = "done"
    /\ apiPc' = "idle"
    /\ call' = NoCall
    /\ attempts' = 0
    /\ history' = NoHistory
    /\ response' = NoResponse
    /\ transportExc' = "none"
    /\ outcome' = NoOutcome
    /\ UNCHANGED splunk
    /\ UNCHANGED notApiVars

ApiNext ==
    \/ setup_splunk_logging
    \/ ApiRequest
    \/ SessionRetry
    \/ SessionReturns
    \/ SessionRaises
    \/ ApiComplete
    \/ ApiReturn


(***************************************************************************)
(* Claims about ApiClient, checked under SpecApi                           *)
(***************************************************************************)

\* The exchange of the finished call was an ordinary failure: the transport
\* gave up, the status is an error status, or the body of a successful
\* response that was to be parsed is not JSON.
OrdinaryFailure ==
    \/ transportExc # "none"
    \/ response.status >= 400
    \/ ~call.raw /\ ~IsJson(response.body)

LoggedThrough(msgs) == \E i \in 1..Len(outcome.log) : outcome.log[i].msg \in msgs

\* C1: request never raises for an ordinary network or HTTP failure: for every
\* such outcome of the exchange the call logs the failure and returns None (or
\* the handle_400 sentinel), and no exception reaches the caller.
C1_NeverRaises ==
    (apiPc = "done" /\ OrdinaryFailure) =>
        /\ outcome.exc = "none"
        /\ outcome.ret \in {"None", "bad_request"}
        /\ outcome.log # <<>>

\* The server answered every retried attempt of the call with one same
\* forcelisted status, for a method the retry policy covers.
SameRetryableStatus ==
    /\ call.method \in allowed_methods
    /\ history.kind = "response"
    /\ history.status \in status_forcelist

\* C2: for every method in {GET, POST, PUT, DELETE} and every retryable status,
\* a server answering with that status on up to N-1 attempts and then
\* succeeding gives the success payload, with one attempt more than it failed;
\* answering with it on all N allowed attempts (N = retries + 1) ends the call
\* after N attempts with None, logged through the HTTP-error path.
C2_TransportRetry ==
    (apiPc = "done" /\ SameRetryableStatus) =>
        /\ attempts <= retries + 1
        /\ (transportExc = "none" /\ response.status = 200 /\ IsJson(response.body)) =>
                outcome.ret \in {"json", "content"}
        /\ transportExc # "none" =>
                /\ attempts = retries + 1
                /\ outcome.ret = "None"
                /\ LoggedThrough({"http_error", "api_error"})

\* What does hold of the exhausted case of C2: N attempts, None, and the log
\* entry of the generic RequestException handler.
RetriesExhaustedOutcome ==
    (apiPc = "done" /\ SameRetryableStatus /\ transportExc # "none") =>
        /\ attempts = retries + 1
        /\ outcome.ret = "None"
        /\ transportExc = "RetryError"
        /\ LoggedThrough({"request_exception"})

\* The finished call got a response with an error status.
ErrorStatus == apiPc = "done" /\ transportExc = "none" /\ response.status >= 400

Accepted400 == call.handle_400 /\ response.status = 400

\* An error-level entry about the response (the audit sink's own failure
\* aside).
ErrorLogged ==
    \E i \in 1..Len(outcome.log) :
        outcome.log[i].level = "error" /\ outcome.log[i].msg # "splunk_failed"

\* C18: a 400 response to a call with handle_400 returns the sentinel
\* {'message': 'Bad request'} without an error-level log entry; any other
\* response with an error status returns None.
C18_Handle400 ==
    ErrorStatus =>
        IF Accepted400
        THEN outcome.ret = "bad_request" /\ ~ErrorLogged
        ELSE outcome.ret = "None"

\* What does hold: the sentinel half as stated, and for the other error
\* responses None with an error logged, except where the handler itself
\* raises on a JSON body that is no object.
Handle400OrNoneOrRaised ==
    ErrorStatus =>
        IF Accepted400
        THEN outcome.ret = "bad_request" /\ outcome.exc = "none" /\ ~ErrorLogged
        ELSE \/ outcome.ret = "None" /\ ErrorLogged
             \/ /\ outcome.exc = "TypeError"
                /\ response.body \in {"number", "null", "string_messages", "list_messages"}

\* The finished call was made with a destination on a client with a sink.
Audited == apiPc = "done" /\ call.destination /\ splunk

\* What the same exchange gives a call without a destination.
Unaudited ==
    request([call EXCEPT !.destination = FALSE], response, transportExc, splunk, TRUE)

\* C21: a call with a destination on a client with a configured sink returns
\* what it would have returned without auditing and raises nothing more,
\* whatever fails while the audit line is built or posted.
C21_AuditNeverPropagates ==
    Audited => outcome.ret = Unaudited.ret /\ outcome.exc = Unaudited.exc

\* What does hold: a failing POST to the sink is caught and logged, and the
\* result differs only where the body of a successful response is not text.
AuditRaisesOnlyOnDecode ==
    Audited =>
        \/ outcome.ret = Unaudited.ret /\ outcome.exc = Unaudited.exc
        \/ /\ outcome.exc = "UnicodeDecodeError"
           /\ ResponseOk(response)
           /\ response.body = "binary"

\* C22: with a sink configured a call without destination posts no audit line
\* and a call with one posts exactly one (the sink accepting it): the line of
\* the response, with its status and body, whenever a response was received,
\* and the flag line only when none was.
C22_OneAuditLine ==
    (apiPc = "done" /\ splunk) =>
        IF ~call.destination THEN outcome.audit = <<>>
        ELSE \/ LoggedThrough({"splunk_failed"})
             \/ /\ Len(outcome.audit) = 1
                /\ transportExc = "none" =>
                      outcome.audit[1] = [line |-> "response", status |-> response.status,
                                          body |-> response.body]
                /\ transportExc # "none" => outcome.audit[1].line = "failure"

\* What does hold: at most one line; the line of the response only for a
\* status below 400, the flag line 'failure' for every other exchange.
AuditLineByTruthiness ==
    (apiPc = "done" /\ splunk) =>
        /\ Len(outcome.audit) <= 1
        /\ ~call.destination => outcome.audit = <<>>
        /\ outcome.audit # <<>> =>
              IF ResponseOk(response)
              THEN outcome.audit[1] = [line |-> "response", status |-> response.status,
                                       body |-> response.body]
              ELSE outcome.audit[1] = [line |-> "failure", status |-> 0, body |-> "empty"]

\* C28: no attempt is made again after the server answered it with a 2xx
\* status.
C28_SuccessSentOnce ==
    history.kind = "response" => history.status \notin 200..299

\* What does hold: an attempt is made again only after a forcelisted status
\* or a connection-level failure, and 204 is forcelisted.
RetriedOnlyForcelisted ==
    /\ history.kind = "response" => history.status \in status_forcelist
    /\ 204 \in status_forcelist

(***************************************************************************)
(* Spreadsheet, Sheet, Document                                            *)
(***************************************************************************)

\* RETRIES of google_sheets.py and of google_docs.py
RETRIES == 5

\* Descriptors a proxy may hold in its queue over one run.
MaxOps == 2

\* Calls of commit_changes over one run.
MaxCommits == 2

\* Calls of copy_sheet over one run.
MaxCopies == 1

Kinds == {"Spreadsheet", "Sheet", "Document"}

\* An operation descriptor: the key of the batchUpdate request and what it is
\* about (a dimension, a sheet property, the text to find); ranges, indices,
\* cell contents and field masks are left out.
Request(req, what) == [req |-> req, what |-> what]

\* The method returned before it built a request.
NoRequest == Request("", "")

\* ---- Spreadsheet ----
add_sheet(index) == Request("addSheet", IF index >= 0 THEN "index" ELSE "")

delete_sheet == Request("deleteSheet", "")

hidden_request == Request("updateSheetProperties", "hidden")

rename_sheet == Request("updateSheetProperties", "title")

move_sheet == Request("updateSheetProperties", "index")

\* ---- Sheet ----
insert_rows(number) == IF number < 1 THEN NoRequest ELSE Request("insertDimension", "ROWS")

delete_rows(number) == IF number < 1 THEN NoRequest ELSE Request("deleteDimension", "ROWS")

delete_columns(number) == IF number < 1 THEN NoRequest ELSE Request("deleteDimension", "COLUMNS")

insert_column(number) == IF number < 1 THEN NoRequest ELSE Request("insertDimension", "COLUMNS")

merge_cells == Request("mergeCells", "")

add_hide_box == Request("addConditionalFormatRule", "")

set_borders == Request("updateBorders", "")

\* _cells_request(row, column, row_objects, fields)
cells_request(fields) == Request("updateCells", "")

\* _dimension_properties_request(properties, fields, dimension_range)
dimension_properties_request(fields) == Request("updateDimensionProperties", "")

\* set_text_format(cell_range, **kwargs) does nothing without kwargs.
set_text_format(nkwargs) ==
    IF nkwargs = 0 THEN NoRequest ELSE cells_request("userEnteredFormat.textFormat")

\* The methods that stage through _cells_request, with their field mask.
CellsMethods ==
    [set_number_format |-> "userEnteredFormat.numberFormat",
     set_horizontal_alignment |-> "userEnteredFormat.horizontalAlignment",
     set_vertical_alignment |-> "userEnteredFormat.verticalAlignment",
     set_background_colour |-> "userEnteredFormat.backgroundColor",
     set_wrap_strategy |-> "userEnteredFormat.wrapStrategy",
     set_value |-> "userEnteredValue",
     set_values |-> "userEnteredValue",
     mass_set_value |-> "userEnteredValue",
     set_link_sets |-> "userEnteredValue,textFormatRuns",
     set_data_validation |-> "dataValidation",
     replace_cells |-> "*"]

\* The methods that stage through _dimension_properties_request.
DimensionMethods ==
    [set_row_height |-> "pixelSize",
     set_column_width |-> "pixelSize",
     set_rows_hidden |-> "hiddenByUser",
     set_columns_hidden |-> "hiddenByUser"]

\* ---- Document ----
replace_all_text(find) == Request("replaceAllText", find)

\* Every queueing call a caller can make on a proxy of class k: the method
\* and the request it builds.
MutatorCalls(k) ==
    CASE k = "Spreadsheet" ->
            {[method |-> "add_sheet", request |-> add_sheet(i)] : i \in {-1, 0}}
            \cup {[method |-> "delete_sheet", request |-> delete_sheet],
                  [method |-> "hidden_request", request |-> hidden_request],
                  [method |-> "rename_sheet", request |-> rename_sheet],
                  [method |-> "move_sheet", request |-> move_sheet]}
      [] k = "Sheet" ->
            {[method |-> "insert_rows", request |-> insert_rows(n)] : n \in {0, 1}}
            \cup {[method |-> "delete_rows", request |-> delete_rows(n)] : n \in {0, 1}}
            \cup {[method |-> "delete_columns", request |-> delete_columns(n)] : n \in {0, 1}}
            \cup {[method |-> "insert_column", request |-> insert_column(n)] : n \in {0, 1}}
            \cup {[method |-> "set_text_format", request |-> set_text_format(n)] : n \in {0, 1}}
            \cup {[method |-> m, request |-> cells_request(CellsMethods[m])] :
                        m \in DOMAIN CellsMethods}
            \cup {[method |-> m, request |-> dimension_properties_request(DimensionMethods[m])] :
                        m \in DOMAIN DimensionMethods}
            \cup {[method |-> "merge_cells", request |-> merge_cells],
                  [method |-> "add_hide_box", request |-> add_hide_box],
                  [method |-> "set_borders", request |-> set_borders]}
      [] OTHER ->
            {[method |-> "replace_all_text", request |-> replace_all_text(f)] : f \in {"a", "b"}}

\* A queue that took the newest descriptor at its head (what Enqueue is not).
EnqueueFirst(queue, descriptor) == <<descriptor>> \o queue

\* self.requests.append(request)
Enqueue(queue, descriptor) == Append(queue, descriptor)

\* A queueing method that went to the network (what StagedCall is not).
StagedCallOnline == [op |-> "mutator", ret |-> "None", service |-> 1, batches |-> 1,
                     copies |-> 0, body |-> [requests |-> <<>>, includeSpreadsheetInResponse |-> FALSE]]

\* What a queueing method does besides appending: it returns None, starts no
\* service and calls no wrapper.
StagedCall == [op |-> "mutator", ret |-> "None", service |-> 0, batches |-> 0,
               copies |-> 0, body |-> [requests |-> <<>>, includeSpreadsheetInResponse |-> FALSE]]

\* A commit_changes without its early return.
NothingStagedNever(queue) == FALSE

\* len(self.requests) == 0, not self.requests: the early return of
\* commit_changes
NothingStaged(queue) == Len(queue) = 0

\* The payload the remote document answers with at version v: what a fetch
\* returns and what 'updatedSpreadsheet' holds.
Preload(k, srv) ==
    [json |-> srv.version,
     title_key |-> IF k = "Spreadsheet" THEN 0..(srv.sheets - 1) ELSE {},
     sheet_id |-> 0,
     sheet_name |-> IF k = "Sheet" THEN srv.version ELSE 0,
     cell_array |-> IF k = "Sheet" THEN srv.version ELSE 0,
     width |-> IF k = "Sheet" THEN srv.version ELSE 0]

\* Spreadsheet.reload(preload) and Sheet.reload(preload): the mirror as it is
\* after the reload (Sheet.reload leaves width alone).
reload(k, old, preload) ==
    IF k = "Sheet" THEN [preload EXCEPT !.width = old.width] ELSE preload

NoBody == [requests |-> <<>>, includeSpreadsheetInResponse |-> FALSE]

NoCommit == [update |-> FALSE, body |-> NoBody, i |-> 0]

\* A call of a public method: its return value and the network activity it
\* caused (calls of start_service, of the batch_update wrapper and of the
\* copy_to wrapper, and the body batchUpdate was executed with).
Called(op, ret, service, batches, copies, body) ==
    [op |-> op, ret |-> ret, service |-> service,
     batches |-> batches, copies |-> copies, body |-> body]

NotCalled == Called("fetch", "proxy", 1, 0, 0, NoBody)

\* request_object of commit_changes
RequestObject(queue, update) ==
    [requests |-> queue, includeSpreadsheetInResponse |-> update]

\* The queue after a commit that succeeded: Document resets it, Spreadsheet
\* and Sheet only through reload when update is set.
QueueAfterCommit(k, queue, update) ==
    IF k = "Document" \/ update THEN <<>> ELSE queue

\* A failed commit that threw the queue away.
QueueDroppedAfterFailure(k, queue) == <<>>

\* The queue after a commit whose batch update failed.
QueueAfterFailure(k, queue) == queue

\* The mirror after a commit that succeeded.
SnapshotAfterCommit(k, old, update, srv) ==
    IF k # "Document" /\ update THEN reload(k, old, Preload(k, srv)) ELSE old

ProxyInit ==
    /\ kind \in Kinds
    /\ requests = <<>>
    /\ server = [version |-> 0, sheets |-> 1, other |-> 0]
    /\ snapshot = Preload(kind, server)
    /\ proxyPc = "ready"
    /\ commit = NoCommit
    /\ lastCall = NotCalled
    /\ issued = <<>>
    /\ commits = 0

\* Any queueing method: builds its request and appends it, or returns early.
Mutator ==
    /\ proxyPc = "ready"
    /\ Len(issued) < MaxOps
    /\ \E c \in MutatorCalls(kind) :
          /\ lastCall' = StagedCall
          /\ IF c.request = NoRequest
             THEN UNCHANGED <<requests, issued>>
             ELSE /\ requests' = Enqueue(requests, c.request)
                  /\ issued' = Append(issued, c.request)
    /\ UNCHANGED <<kind, snapshot, proxyPc, commit, server, commits>>
    /\ UNCHANGED notProxyVars

\* commit_changes with nothing staged returns True at once.
CommitEmpty ==
    /\ proxyPc = "ready"
    /\ commits < MaxCommits
    /\ NothingStaged(requests)
    /\ lastCall' = Called("commit_changes", "True", 0, 0, 0, NoBody)
    /\ commits' = commits + 1
    /\ UNCHANGED <<kind, requests, snapshot, proxyPc, commit, server, issued>>
    /\ UNCHANGED notProxyVars

\* commit_changes builds the body, starts the service and enters batch_update.
CommitStart ==
    /\ proxyPc = "ready"
    /\ commits < MaxCommits
    /\ ~NothingStaged(requests)
    /\ \E update \in (IF kind = "Document" THEN {FALSE} ELSE BOOLEAN) :
          commit' = [update |-> update, body |-> RequestObject(requests, update), i |-> 0]
    /\ lastCall' = Called("commit_changes", "pending", 1, 1, 0, NoBody)
    /\ proxyPc' = "batch"
    /\ commits' = commits + 1
    /\ UNCHANGED <<kind, requests, snapshot, server, issued>>
    /\ UNCHANGED notProxyVars

\* batchUpdate(...).execute() answers: the batch is applied, commit_changes
\* updates the proxy and returns True.
BatchSucceeds ==
    /\ proxyPc = "batch"
    /\ server' = [server EXCEPT !.version = @ + 1]
    /\ requests' = QueueAfterCommit(kind, requests, commit.update)
    /\ snapshot' = SnapshotAfterCommit(kind, snapshot, commit.update, server')
    /\ lastCall' = [lastCall EXCEPT !.ret = "True", !.body = commit.body]
    /\ proxyPc' = "ready"
    /\ commit' = NoCommit
    /\ UNCHANGED <<kind, issued, commits>>
    /\ UNCHANGED notProxyVars

\* The execution raises TimeoutError or HttpError 500/503 with attempts left:
\* batch_update goes round its loop.
BatchRetries ==
    /\ proxyPc = "batch"
    /\ commit.i < RETRIES - 1
    /\ commit' = [commit EXCEPT !.i = @ + 1]
    /\ lastCall' = [lastCall EXCEPT !.body = commit.body]
    /\ UNCHANGED <<kind, requests, snapshot, proxyPc, server, issued, commits>>
    /\ UNCHANGED notProxyVars

\* The execution raises another HttpError, or a retryable one on the last
\* attempt: batch_update logs and returns None, commit_changes logs and
\* returns False.
BatchFails ==
    /\ proxyPc = "batch"
    /\ requests' = QueueAfterFailure(kind, requests)
    /\ lastCall' = [lastCall EXCEPT !.ret = "False", !.body = commit.body]
    /\ proxyPc' = "ready"
    /\ commit' = NoCommit
    /\ UNCHANGED <<kind, snapshot, server, issued, commits>>
    /\ UNCHANGED notProxyVars

\* Spreadsheet.copy_sheet(sheet_name, new_name, destination_id, ...): copyTo,
\* then a batchUpdate that renames and moves the copy.
copy_sheet ==
    /\ proxyPc = "ready"
    /\ kind = "Spreadsheet"
    /\ server.sheets + server.other < 1 + MaxCopies
    /\ \E found \in BOOLEAN, toSelf \in BOOLEAN, copied \in BOOLEAN, renamed \in BOOLEAN :
          LET made == found /\ copied
              done == made /\ renamed
          IN /\ server' = [server EXCEPT
                              !.sheets = IF made /\ toSelf THEN @ + 1 ELSE @,
                              !.other = IF made /\ ~toSelf THEN @ + 1 ELSE @,
                              !.version = IF done /\ toSelf THEN @ + 1 ELSE @]
             /\ snapshot' = IF done /\ toSelf
                            THEN [snapshot EXCEPT !.title_key = @ \cup {server.sheets}]
                            ELSE snapshot
             /\ lastCall' = Called("copy_sheet",
                                   IF done THEN "Sheet" ELSE "None",
                                   1,
                                   IF made THEN 1 ELSE 0,
                                   IF found THEN 1 ELSE 0,
                                   NoBody)
    /\ UNCHANGED <<kind, requests, proxyPc, commit, issued, commits>>
    /\ UNCHANGED notProxyVars

ProxyNext ==
    \/ Mutator
    \/ CommitEmpty
    \/ CommitStart
    \/ BatchSucceeds
    \/ BatchRetries
    \/ BatchFails
    \/ copy_sheet

\* ---- Claims about the proxies ----

\* commit_changes has just returned ret for a queue that was not empty.
Committed(ret) ==
    /\ proxyPc = "ready"
    /\ lastCall.op = "commit_changes"
    /\ lastCall.batches = 1
    /\ lastCall.ret = ret

\* C3: after commit_changes returns True for a non-empty queue, the pending
\* queue of the proxy is empty, for Spreadsheet, Sheet and Document and for
\* update False and True.
C3_QueueEmptyAfterCommit == Committed("True") => requests = <<>>

\* What the code does: only Document, and a commit with update set, empty
\* the queue.
QueueAfterCommitByClass ==
    Committed("True") =>
        (requests = <<>> <=> (kind = "Document" \/ lastCall.body.includeSpreadsheetInResponse))

C5_FifoBody ==
    /\ (proxyPc = "batch" /\ commits = 1) => commit.body.requests = issued
    /\ (commits = 1 /\ lastCall.op = "commit_changes" /\ lastCall.batches = 1
            /\ lastCall.ret \in {"True", "False"}) =>
                lastCall.body.requests = issued

C5_Witness ==
    /\ Committed("True")
    /\ commits = 1
    /\ Len(issued) = 2
    /\ issued[1] # issued[2]
    /\ lastCall.body.requests = issued

\* C6: commit_changes on an empty queue returns True at once: no service is
\* started (so no credentials fetched) and no batch update is made, however
\* often it is called.
C6_EmptyCommitOffline ==
    [][(proxyPc = "ready" /\ requests = <<>> /\ lastCall'.op = "commit_changes") =>
            /\ lastCall'.ret = "True"
            /\ lastCall'.service = 0
            /\ lastCall'.batches = 0
            /\ lastCall'.copies = 0
            /\ proxyPc' = "ready"
            /\ UNCHANGED <<requests, snapshot, server>>]_vars

C6_Witness ==
    /\ commits = 2
    /\ issued = <<>>
    /\ lastCall.op = "commit_changes"
    /\ lastCall.ret = "True"
    /\ lastCall.service = 0

\* A call of a public method other than commit_changes leaves the network and
\* the mirror alone.
OnlyEnqueues ==
    /\ lastCall'.service = 0
    /\ lastCall'.batches = 0
    /\ lastCall'.copies = 0
    /\ UNCHANGED <<snapshot, server>>
    /\ \/ requests' = requests
       \/ \E c \in MutatorCalls(kind) : requests' = Append(requests, c.request)

CopySheetStep == proxyPc = "ready" /\ lastCall'.op = "copy_sheet"

\* C25: copy_sheet is atomic for its caller: when it returns None no sheet
\* was created on the server, and when a sheet was created in this
\* spreadsheet the proxy has it in its title key.
C25_CopySheetAtomic ==
    [][CopySheetStep =>
          /\ lastCall'.ret = "None" => server' = server
          /\ server'.sheets # server.sheets => snapshot'.title_key # snapshot.title_key]_vars

\* What does hold: a returned Sheet is a created and renamed one, and the one
\* None that leaves a duplicate behind is that of the failed rename, after
\* which the proxy's title key is as before.
CopySheetLeavesDuplicate ==
    [][CopySheetStep =>
          /\ lastCall'.ret = "Sheet" => (server' # server /\ lastCall'.batches = 1)
          /\ (lastCall'.ret = "None" /\ server' # server) =>
                /\ lastCall'.copies = 1
                /\ lastCall'.batches = 1
                /\ snapshot' = snapshot]_vars

(***************************************************************************)
(* Credentials: Gmail, Xero, Google suite                                  *)
(***************************************************************************)

\* Ticks of the clock over one run.
MaxTime == 3

\* Credential calls over one run.
MaxCalls == 3

\* Ticks an access token lives from the moment it is issued ('expires_in').
Lifetime == 1

Providers == {"gmail", "xero", "suite"}

\* A date that is not stored (None, a key that is not set).
Unset == -1

\* The default of os.getenv('GOOGLE_DRIVE_EXPIRY', '2000-01-01T00:00:00.000000'):
\* a date before every reading of the clock.
Year2000 == 0

\* A Credentials object, or a token set of Xero: the tokens by the number the
\* identity provider issued them under (0: None).
Credentials(token, refresh_token, expiry) ==
    [token |-> token, refresh_token |-> refresh_token, expiry |-> expiry]

\* None where credentials are expected.
NoCredentials == Credentials(0, 0, Unset)

\* Credentials.expired
Expired(c, t) == c.expiry # Unset /\ c.expiry <= t

\* Credentials.valid
Valid(c, t) == c.token # 0 /\ ~Expired(c, t)

NoIdp == [issued |-> 0, refresh_token |-> 0]

\* The identity provider accepts the refresh token of c.
RefreshAccepted(c, i) == c.refresh_token # 0 /\ c.refresh_token = i.refresh_token

\* The identity provider after it issued one more access token, and with it a
\* new refresh token when rotate is set.
Issue(i, rotate) ==
    [issued |-> i.issued + 1,
     refresh_token |-> IF rotate THEN i.issued + 1 ELSE i.refresh_token]

\* flow.run_local_server(prompt='consent'), the code exchange of Xero and a
\* Xero refresh: a new access token and a new refresh token.
Authorized(i, t) == Credentials(i.issued + 1, i.issued + 1, t + Lifetime)

\* A refresh that renewed the token and left the old expiry.
RefreshedStale(c, i, t) == [c EXCEPT !.token = i.issued + 1]

\* credentials.refresh(Request()) when the refresh token is accepted: a new
\* access token and expiry under the same refresh token.
Refreshed(c, i, t) == [c EXCEPT !.token = i.issued + 1, !.expiry = t + Lifetime]

\* ---- GmailAccount ----
NoRow == [present |-> FALSE, corrupt |-> FALSE, credentials |-> NoCredentials]

\* GmailAccount.store_credentials: the row after the call; the commit either
\* goes through or raises SQLAlchemyError and is rolled back.
store_credentials(row, credentials, dbOk) ==
    IF dbOk
    THEN [present |-> TRUE, corrupt |-> FALSE, credentials |-> credentials]
    ELSE row

\* GmailAccount.get_credentials: None for a missing row and for a blob that
\* does not decrypt or parse.
get_credentials(row) ==
    IF row.present /\ ~row.corrupt THEN row.credentials ELSE NoCredentials

\* What a credential call did: its result, the credentials it returned or
\* used, refreshes that succeeded, refreshes rejected (RefreshError, an error
\* answer), authorization flows started, calls of the store's write and
\* writes that were committed.
Outcome(op, ret, exc, credentials, refreshes, rejected, flows, stores, written) ==
    [op |-> op, ret |-> ret, exc |-> exc, credentials |-> credentials,
     refreshes |-> refreshes, rejected |-> rejected, flows |-> flows,
     stores |-> stores, written |-> written]

NoOutcomeYet == Outcome("none", "None", "none", NoCredentials, 0, 0, 0, 0, 0)

\* 1 for a commit that went through.
Written(dbOk) == IF dbOk THEN 1 ELSE 0

\* authorize_gmail_account(email_address): the flow, then store_credentials
\* with its result ignored; ValueError gives None.
authorize_gmail_account(row, i, t, flowOk, dbOk) ==
    IF flowOk
    THEN [credentials |-> Authorized(i, t),
          row |-> store_credentials(row, Authorized(i, t), dbOk),
          idp |-> Issue(i, TRUE), stores |-> 1, written |-> Written(dbOk)]
    ELSE [credentials |-> NoCredentials, row |-> row, idp |-> i,
          stores |-> 0, written |-> 0]

\* build('gmail', 'v1', credentials=credentials): a service, or None when
\* HttpError is raised.
build(buildOk) == IF buildOk THEN "service" ELSE "None"

\* get_gmail_service(from_email)
get_gmail_service(row, i, t, flowOk, dbOk, buildOk) ==
    LET op == "get_gmail_service"
        stored == get_credentials(row)
        auth == authorize_gmail_account(row, i, t, flowOk, dbOk)
        fresh == Refreshed(stored, i, t)
    IN  IF stored = NoCredentials
        THEN \* lines 78-85: no usable row, authorize
             [out |-> Outcome(op, IF flowOk THEN build(buildOk) ELSE "None", "none",
                              auth.credentials, 0, 0, 1, auth.stores, auth.written),
              row |-> auth.row, idp |-> auth.idp]
        ELSE IF Valid(stored, t)
        THEN [out |-> Outcome(op, build(buildOk), "none", stored, 0, 0, 0, 0, 0),
              row |-> row, idp |-> i]
        ELSE IF RefreshAccepted(stored, i)
        THEN \* lines 89-91: refresh, then store
             [out |-> Outcome(op, build(buildOk), "none", fresh, 1, 0, 0, 1, Written(dbOk)),
              row |-> store_credentials(row, fresh, dbOk), idp |-> Issue(i, FALSE)]
        ELSE \* lines 92-99: RefreshError, authorize again
             [out |-> Outcome(op, IF flowOk THEN build(buildOk) ELSE "None", "none",
                              auth.credentials, 0, 1, 1, auth.stores, auth.written),
              row |-> auth.row, idp |-> auth.idp]

\* ---- XeroClient ----
NoClient == [access_token |-> 0, refresh_token |-> 0, access_token_expiry |-> Unset,
             tenant_id |-> 0]

\* XeroClient.set_tokens: the row after the call; a commit that raises
\* SQLAlchemyError is logged and rolled back, and nothing is returned.
set_tokens(client, access_token, refresh_token, expiry, tenant_id, dbOk) ==
    IF dbOk
    THEN [access_token |-> access_token, refresh_token |-> refresh_token,
          access_token_expiry |-> expiry,
          tenant_id |-> IF tenant_id # 0 THEN tenant_id ELSE client.tenant_id]
    ELSE client

\* What auth_client.post('connect/token', ...) gives refresh_client_tokens.
Answers == {"tokens", "None", "incomplete"}

\* refresh_client_tokens(client)
refresh_client_tokens(client, i, t, answer, dbOk) ==
    LET op == "refresh_client_tokens"
        held == Credentials(client.access_token, client.refresh_token,
                            client.access_token_expiry)
        tokens == Authorized(i, t)
    IN  IF client.refresh_token = 0
        THEN [out |-> Outcome(op, "False", "none", NoCredentials, 0, 0, 0, 0, 0),
              client |-> client, idp |-> i]
        ELSE IF answer = "tokens" /\ RefreshAccepted(held, i)
        THEN [out |-> Outcome(op, "True", "none", tokens, 1, 0, 0, 1, Written(dbOk)),
              client |-> set_tokens(client, tokens.token, tokens.refresh_token,
                                    tokens.expiry, 0, dbOk),
              idp |-> Issue(i, TRUE)]
        ELSE [out |-> Outcome(op, "False", "none", NoCredentials, 0, 1, 0, 0, 0),
              client |-> client, idp |-> i]

\* get_tokens(client): refreshes when the expiry is missing or passed, then
\* returns the access token of the row whatever the refresh answered.
get_tokens(client, i, t, answer, dbOk) ==
    LET due == client.access_token_expiry = Unset \/ t > client.access_token_expiry
        r == refresh_client_tokens(client, i, t, answer, dbOk)
        after == IF due THEN r.client ELSE client
        did == IF due THEN r.out ELSE NoOutcomeYet
    IN  [out |-> Outcome("get_tokens",
                         IF after.access_token = 0 THEN "None" ELSE "access_token",
                         "none",
                         Credentials(after.access_token, after.refresh_token,
                                     after.access_token_expiry),
                         did.refreshes, did.rejected, 0, did.stores, did.written),
         client |-> after,
         idp |-> IF due THEN r.idp ELSE i]

\* register_new_client(xero_client_id, auth_code, redirect_uri, names): the
\* code exchange, the tenant lookup, then set_tokens.
register_new_client(client, i, t, tokensOk, tenantOk, dbOk) ==
    LET op == "register_new_client"
        tokens == Authorized(i, t)
    IN  IF ~tokensOk
        THEN [out |-> Outcome(op, "error", "none", NoCredentials, 0, 0, 1, 0, 0),
              client |-> client, idp |-> i]
        ELSE IF ~tenantOk
        THEN [out |-> Outcome(op, "error", "none", NoCredentials, 0, 0, 1, 0, 0),
              client |-> client, idp |-> Issue(i, TRUE)]
        ELSE [out |-> Outcome(op, "no_error", "none", tokens, 0, 0, 1, 1, Written(dbOk)),
              client |-> set_tokens(client, tokens.token, tokens.refresh_token,
                                    tokens.expiry, 1, dbOk),
              idp |-> Issue(i, TRUE)]

\* ---- Google suite ----
NoEnv == [GOOGLE_ACCESS_TOKEN |-> 0, GOOGLE_REFRESH_TOKEN |-> 0,
          GOOGLE_EXPIRY |-> Unset, GOOGLE_DRIVE_EXPIRY |-> Unset]

\* The three set_key calls and load_dotenv(override=True).
set_key(e, c) ==
    [e EXCEPT !.GOOGLE_ACCESS_TOKEN = c.token,
              !.GOOGLE_REFRESH_TOKEN = c.refresh_token,
              !.GOOGLE_EXPIRY = c.expiry]

\* Credentials(token=..., refresh_token=..., expiry=...) of lines 716-724.
LoadedCredentials(e) ==
    IF e.GOOGLE_REFRESH_TOKEN # 0
    THEN Credentials(e.GOOGLE_ACCESS_TOKEN, e.GOOGLE_REFRESH_TOKEN,
                     IF e.GOOGLE_DRIVE_EXPIRY = Unset THEN Year2000
                     ELSE e.GOOGLE_DRIVE_EXPIRY)
    ELSE NoCredentials

\* get_google_suite_credentials()
get_google_suite_credentials(e, i, t, flowOk) ==
    LET op == "get_google_suite_credentials"
        creds == LoadedCredentials(e)
        fresh == Refreshed(creds, i, t)
        auth == Authorized(i, t)
    IN  IF creds # NoCredentials /\ Expired(creds, t)
        THEN IF RefreshAccepted(creds, i)
             THEN [out |-> Outcome(op, "credentials", "none", fresh, 1, 0, 0, 1, 1),
                   env |-> set_key(e, fresh), idp |-> Issue(i, FALSE)]
             ELSE \* line 728: RefreshError is not caught
                  [out |-> Outcome(op, "raised", "RefreshError", NoCredentials,
                                   0, 1, 0, 0, 0),
                   env |-> e, idp |-> i]
        ELSE IF creds = NoCredentials \/ ~Valid(creds, t)
        THEN IF flowOk
             THEN [out |-> Outcome(op, "credentials", "none", auth, 0, 0, 1, 1, 1),
                   env |-> set_key(e, auth), idp |-> Issue(i, TRUE)]
             ELSE \* lines 744-747: the expiry is no datetime
                  [out |-> Outcome(op, "raised", "ValueError", NoCredentials,
                                   0, 0, 1, 0, 0),
                   env |-> e, idp |-> Issue(i, TRUE)]
        ELSE [out |-> Outcome(op, "credentials", "none", creds, 0, 0, 0, 0, 0),
              env |-> e, idp |-> i]

\* ---- the credential calls as steps ----
CredInit ==
    /\ provider \in Providers
    /\ now = 1
    /\ idp = NoIdp
    /\ gmailRow = NoRow
    /\ xeroRow = NoClient
    /\ env \in {[NoEnv EXCEPT !.GOOGLE_DRIVE_EXPIRY = d] :
                    d \in IF provider = "suite" THEN {Unset, MaxTime} ELSE {Unset}}
    /\ credCall = NoOutcomeYet
    /\ calls = 0

\* Time passes.
Tick ==
    /\ now < MaxTime
    /\ now' = now + 1
    /\ credCall' = NoOutcomeYet
    /\ UNCHANGED <<provider, idp, gmailRow, xeroRow, env, calls>>
    /\ UNCHANGED notCredVars

\* The identity provider revokes the refresh token it had issued.
Revoke ==
    /\ idp.refresh_token # 0
    /\ idp' = [idp EXCEPT !.refresh_token = 0]
    /\ credCall' = NoOutcomeYet
    /\ UNCHANGED <<provider, now, gmailRow, xeroRow, env, calls>>
    /\ UNCHANGED notCredVars

\* The stored blob stops decrypting (damaged, or DB_ENCRYPTION_KEY changed).
CorruptRow ==
    /\ provider = "gmail"
    /\ gmailRow.present
    /\ ~gmailRow.corrupt
    /\ gmailRow' = [gmailRow EXCEPT !.corrupt = TRUE]
    /\ credCall' = NoOutcomeYet
    /\ UNCHANGED <<provider, now, idp, xeroRow, env, calls>>
    /\ UNCHANGED notCredVars

GetGmailService ==
    /\ provider = "gmail"
    /\ calls < MaxCalls
    /\ \E flowOk \in BOOLEAN, dbOk \in BOOLEAN, buildOk \in BOOLEAN :
          LET r == get_gmail_service(gmailRow, idp, now, flowOk, dbOk, buildOk)
          IN  /\ credCall' = r.out
              /\ gmailRow' = r.row
              /\ idp' = r.idp
    /\ calls' = calls + 1
    /\ UNCHANGED <<provider, now, xeroRow, env>>
    /\ UNCHANGED notCredVars

AuthorizeGmailAccount ==
    /\ provider = "gmail"
    /\ calls < MaxCalls
    /\ \E flowOk \in BOOLEAN, dbOk \in BOOLEAN :
          LET r == authorize_gmail_account(gmailRow, idp, now, flowOk, dbOk)
          IN  /\ credCall' = Outcome("authorize_gmail_account",
                                     IF flowOk THEN "credentials" ELSE "None", "none",
                                     r.credentials, 0, 0, 1, r.stores, r.written)
              /\ gmailRow' = r.row
              /\ idp' = r.idp
    /\ calls' = calls + 1
    /\ UNCHANGED <<provider, now, xeroRow, env>>
    /\ UNCHANGED notCredVars

RegisterNewClient ==
    /\ provider = "xero"
    /\ calls < MaxCalls
    /\ \E tokensOk \in BOOLEAN, tenantOk \in BOOLEAN, dbOk \in BOOLEAN :
          LET r == register_new_client(xeroRow, idp, now, tokensOk, tenantOk, dbOk)
          IN  /\ credCall' = r.out
              /\ xeroRow' = r.client
              /\ idp' = r.idp
    /\ calls' = calls + 1
    /\ UNCHANGED <<provider, now, gmailRow, env>>
    /\ UNCHANGED notCredVars

RefreshClientTokens ==
    /\ provider = "xero"
    /\ calls < MaxCalls
    /\ \E answer \in Answers, dbOk \in BOOLEAN :
          LET r == refresh_client_tokens(xeroRow, idp, now, answer, dbOk)
          IN  /\ credCall' = r.out
              /\ xeroRow' = r.client
              /\ idp' = r.idp
    /\ calls' = calls + 1
    /\ UNCHANGED <<provider, now, gmailRow, env>>
    /\ UNCHANGED notCredVars

GetTokens ==
    /\ provider = "xero"
    /\ calls < MaxCalls
    /\ \E answer \in Answers, dbOk \in BOOLEAN :
          LET r == get_tokens(xeroRow, idp, now, answer, dbOk)
          IN  /\ credCall' = r.out
              /\ xeroRow' = r.client
              /\ idp' = r.idp
    /\ calls' = calls + 1
    /\ UNCHANGED <<provider, now, gmailRow, env>>
    /\ UNCHANGED notCredVars

GetGoogleSuiteCredentials ==
    /\ provider = "suite"
    /\ calls < MaxCalls
    /\ \E flowOk \in BOOLEAN :
          LET r == get_google_suite_credentials(env, idp, now, flowOk)
          IN  /\ credCall' = r.out
              /\ env' = r.env
              /\ idp' = r.idp
    /\ calls' = calls + 1
    /\ UNCHANGED <<provider, now, gmailRow, xeroRow>>
    /\ UNCHANGED notCredVars

CredNext ==
    \/ Tick
    \/ Revoke
    \/ CorruptRow
    \/ GetGmailService
    \/ AuthorizeGmailAccount
    \/ RegisterNewClient
    \/ RefreshClientTokens
    \/ GetTokens
    \/ GetGoogleSuiteCredentials

\* ---- Claims about the credentials ----

\* The mailbox has a row that decrypts, its credentials have expired and the
\* identity provider still accepts their refresh token.
ExpiredRefreshable ==
    /\ provider = "gmail"
    /\ get_credentials(gmailRow) # NoCredentials
    /\ Expired(get_credentials(gmailRow), now)
    /\ RefreshAccepted(get_credentials(gmailRow), idp)

C9_RefreshFailureFallsBack ==
    (credCall.op \in {"get_gmail_service", "get_google_suite_credentials"}
            /\ credCall.rejected = 1) =>
        /\ credCall.exc = "none"
        /\ credCall.flows = 1
        /\ credCall.credentials # NoCredentials => credCall.stores = 1

\* What holds of C9: the mailbox path falls back, the suite path raises.
RefreshFailureByPath ==
    credCall.rejected = 1 =>
        /\ credCall.op = "get_gmail_service" =>
                /\ credCall.exc = "none"
                /\ credCall.flows = 1
                /\ credCall.credentials # NoCredentials => credCall.stores = 1
        /\ credCall.op = "get_google_suite_credentials" =>
                /\ credCall.exc = "RefreshError"
                /\ credCall.flows = 0

\* The store holds the credentials c.
Persisted(c) ==
    CASE provider = "gmail" -> get_credentials(gmailRow) = c
      [] provider = "xero" ->
            /\ xeroRow.access_token = c.token
            /\ xeroRow.refresh_token = c.refresh_token
            /\ xeroRow.access_token_expiry = c.expiry
      [] OTHER ->
            /\ env.GOOGLE_ACCESS_TOKEN = c.token
            /\ env.GOOGLE_REFRESH_TOKEN = c.refresh_token

\* C10: when get_gmail_service, authorize_gmail_account or
\* refresh_client_tokens reports success after it obtained new tokens (a
\* refresh or an authorization), the store holds those tokens; a failed write
\* is never followed by a report of success.
C10_PersistedBeforeReturned ==
    (/\ credCall.op \in {"get_gmail_service", "authorize_gmail_account",
                         "refresh_client_tokens"}
     /\ credCall.ret \in {"service", "credentials", "True"}
     /\ credCall.refreshes + credCall.flows > 0) =>
        /\ credCall.written = 1
        /\ Persisted(credCall.credentials)

\* What holds of C10: success is reported whether or not the write was
\* committed, and the tokens are in the store exactly when it was.
PersistedWhenWritten ==
    (/\ credCall.op \in {"get_gmail_service", "authorize_gmail_account",
                         "refresh_client_tokens"}
     /\ credCall.ret \in {"service", "credentials", "True"}
     /\ credCall.refreshes + credCall.flows > 0) =>
        /\ credCall.stores = 1
        /\ credCall.written = 1 <=> Persisted(credCall.credentials)

\* The mailbox has a row whose blob does not decrypt.
UndecryptableRow ==
    /\ provider = "gmail"
    /\ gmailRow.present
    /\ gmailRow.corrupt

\* C11: a stored blob that cannot be decrypted is terminal for the mailbox:
\* get_gmail_service returns failure, starts no authorization flow and leaves
\* the stored row as it is (not deleted, not overwritten).
C11_UndecryptableIsTerminal ==
    [][(UndecryptableRow /\ calls' = calls + 1 /\ credCall'.op = "get_gmail_service") =>
            /\ credCall'.ret = "None"
            /\ credCall'.flows = 0
            /\ credCall'.stores = 0
            /\ gmailRow' = gmailRow]_vars

\* What the code does with such a row: get_credentials logs and returns None,
\* and get_gmail_service treats None as "no credentials": it always starts the
\* authorization flow, and a flow that succeeds overwrites the row when the
\* write is committed.
UndecryptableStartsFlow ==
    [][(UndecryptableRow /\ calls' = calls + 1 /\ credCall'.op = "get_gmail_service") =>
            /\ credCall'.flows = 1
            /\ credCall'.written = 1 =>
                    (~gmailRow'.corrupt /\ gmailRow'.credentials = credCall'.credentials)
            /\ credCall'.written = 0 => gmailRow' = gmailRow]_vars

\* The access token of c can be used at time t as get_tokens judges it
\* (datetime.now() > client.access_token_expiry means expired).
Usable(c, t) == c.token # 0 /\ c.expiry # Unset /\ t <= c.expiry

\* C12: get_tokens yields a usable (valid, non-expired) access token or a
\* failure: for a client whose stored token is expired or has no expiry, the
\* token returned is the one a successful refresh obtained, and after a failed
\* refresh the stored expired token is not handed out.
C12_GetTokensUsableOrFailure ==
    (credCall.op = "get_tokens" /\ credCall.ret = "access_token") =>
        Usable(credCall.credentials, now)

\* What the code does: get_tokens ignores the result of refresh_client_tokens
\* and returns the access token of the row; it is usable exactly when no
\* refresh was due or the refresh succeeded and was committed.
GetTokensReturnsRow ==
    credCall.op = "get_tokens" =>
        /\ credCall.credentials.token = xeroRow.access_token
        /\ (credCall.refreshes = 1 /\ credCall.written = 1) => Usable(credCall.credentials, now)
        /\ (credCall.rejected = 1 /\ credCall.ret = "access_token") =>
                ~Usable(credCall.credentials, now)

\* get_google_suite_credentials is called while the expiry an earlier call
\* persisted has not passed.
SuiteCallBeforeExpiry ==
    /\ provider = "suite"
    /\ calls' = calls + 1
    /\ credCall'.op = "get_google_suite_credentials"
    /\ env.GOOGLE_REFRESH_TOKEN # 0
    /\ env.GOOGLE_EXPIRY # Unset
    /\ now < env.GOOGLE_EXPIRY

\* C29: a call of get_google_suite_credentials made before the expiry that an
\* earlier call persisted performs no refresh and no authorization flow.
C29_NoRefreshBeforeExpiry ==
    [][SuiteCallBeforeExpiry =>
          /\ credCall'.refreshes = 0
          /\ credCall'.rejected = 0
          /\ credCall'.flows = 0]_vars

\* What does hold: the expiry is read from GOOGLE_DRIVE_EXPIRY, which no call
\* writes, so a call refreshes exactly when that key is unset or has passed.
RefreshByDriveExpiry ==
    [][SuiteCallBeforeExpiry =>
          /\ env'.GOOGLE_DRIVE_EXPIRY = env.GOOGLE_DRIVE_EXPIRY
          /\ (credCall'.refreshes + credCall'.rejected = 1) <=>
                (env.GOOGLE_DRIVE_EXPIRY = Unset \/ now >= env.GOOGLE_DRIVE_EXPIRY)]_vars

(***************************************************************************)
(* Two task executions on the credentials of one account                   *)
(***************************************************************************)

\* The executions the worker pool runs at the same time.
Tasks == {1, 2}

\* An execution: "idle", "loaded" (it read the store), "refreshed" (it holds
\* new tokens), "done"; the credentials it holds; its result; whether its
\* write was committed and whether that write replaced newer tokens.
Task(pc, credentials, ret, committed, stale) ==
    [pc |-> pc, credentials |-> credentials, ret |-> ret,
     committed |-> committed, stale |-> stale]

IdleTask == Task("idle", NoCredentials, "None", FALSE, FALSE)

\* The credentials the store holds for the account.
StoredCredentials ==
    IF provider = "gmail"
    THEN get_credentials(gmailRow)
    ELSE Credentials(xeroRow.access_token, xeroRow.refresh_token,
                     xeroRow.access_token_expiry)

RaceRest == tasks = [p \in Tasks |-> IdleTask]

\* The account was authorized at time 1 and its access token has run out.
RaceInit ==
    /\ provider \in {"gmail", "xero"}
    /\ now = 1 + Lifetime
    /\ idp = Issue(NoIdp, TRUE)
    /\ gmailRow = IF provider = "gmail"
                  THEN store_credentials(NoRow, Authorized(NoIdp, 1), TRUE)
                  ELSE NoRow
    /\ xeroRow = IF provider = "xero"
                 THEN set_tokens(NoClient, Authorized(NoIdp, 1).token,
                                 Authorized(NoIdp, 1).refresh_token,
                                 Authorized(NoIdp, 1).expiry, 1, TRUE)
                 ELSE NoClient
    /\ env = NoEnv
    /\ credCall = NoOutcomeYet
    /\ calls = 0
    /\ RaceRest

\* GmailAccount.get_credentials(from_email) of get_gmail_service, and
\* client.get_xero_refresh_token() of refresh_client_tokens.
TaskLoad(p) ==
    /\ tasks[p].pc = "idle"
    /\ tasks' = [tasks EXCEPT ![p] =
            IF provider = "gmail" /\ Valid(StoredCredentials, now)
            THEN Task("done", StoredCredentials, "service", FALSE, FALSE)
            ELSE IF provider = "xero" /\ StoredCredentials.refresh_token = 0
            THEN Task("done", NoCredentials, "False", FALSE, FALSE)
            ELSE Task("loaded", StoredCredentials, "None", FALSE, FALSE)]
    /\ UNCHANGED <<provider, now, idp, gmailRow, xeroRow, env, credCall, calls>>
    /\ UNCHANGED notRaceVars

\* credentials.refresh(Request()), with authorize_gmail_account after a
\* RefreshError, and auth_client.post('connect/token', data=data).
TaskRefresh(p) ==
    /\ tasks[p].pc = "loaded"
    /\ \E flowOk \in BOOLEAN, answer \in Answers :
          LET held == tasks[p].credentials
              accepted == RefreshAccepted(held, idp)
          IN  IF provider = "gmail"
              THEN IF accepted
                   THEN /\ tasks' = [tasks EXCEPT ![p] =
                                Task("refreshed", Refreshed(held, idp, now), "None", FALSE, FALSE)]
                        /\ idp' = Issue(idp, FALSE)
                   ELSE IF flowOk
                   THEN /\ tasks' = [tasks EXCEPT ![p] =
                                Task("refreshed", Authorized(idp, now), "None", FALSE, FALSE)]
                        /\ idp' = Issue(idp, TRUE)
                   ELSE /\ tasks' = [tasks EXCEPT ![p] =
                                Task("done", NoCredentials, "None", FALSE, FALSE)]
                        /\ idp' = idp
              ELSE IF answer = "tokens" /\ accepted
                   THEN /\ tasks' = [tasks EXCEPT ![p] =
                                Task("refreshed", Authorized(idp, now), "None", FALSE, FALSE)]
                        /\ idp' = Issue(idp, TRUE)
                   ELSE /\ tasks' = [tasks EXCEPT ![p] =
                                Task("done", NoCredentials, "False", FALSE, FALSE)]
                        /\ idp' = idp
    /\ UNCHANGED <<provider, now, gmailRow, xeroRow, env, credCall, calls>>
    /\ UNCHANGED notRaceVars

\* GmailAccount.store_credentials(from_email, credentials) and
\* client.set_tokens(...): the write and its commit.
TaskStore(p) ==
    /\ tasks[p].pc = "refreshed"
    /\ \E dbOk \in BOOLEAN :
          LET held == tasks[p].credentials
          IN  /\ gmailRow' = IF provider = "gmail"
                             THEN store_credentials(gmailRow, held, dbOk)
                             ELSE gmailRow
              /\ xeroRow' = IF provider = "xero"
                            THEN set_tokens(xeroRow, held.token, held.refresh_token,
                                            held.expiry, 0, dbOk)
                            ELSE xeroRow
              /\ tasks' = [tasks EXCEPT ![p] =
                    Task("done", held, IF provider = "gmail" THEN "service" ELSE "True",
                         dbOk, dbOk /\ StoredCredentials.token > held.token)]
    /\ UNCHANGED <<provider, now, idp, env, credCall, calls>>
    /\ UNCHANGED notRaceVars

RaceNext ==
    \/ \E p \in Tasks : TaskLoad(p)
    \/ \E p \in Tasks : TaskRefresh(p)
    \/ \E p \in Tasks : TaskStore(p)
    \/ Revoke

\* ---- Claims about concurrent executions ----

\* Every execution has finished, and each one that obtained tokens got its
\* write committed.
AllStored ==
    \A p \in Tasks :
        /\ tasks[p].pc = "done"
        /\ tasks[p].ret \in {"service", "True"} => tasks[p].committed

\* C13: updates of the credential store are read-modify-write safe: however
\* two executions that refresh or re-authorize one account interleave, the
\* store ends with the most recently issued tokens, no write replaces newer
\* tokens by stale ones, and no execution goes on with a refresh token the
\* other execution has rotated.
C13_StoreRaceSafe ==
    /\ (AllStored /\ \E p \in Tasks : tasks[p].committed) =>
            StoredCredentials.token = idp.issued
    /\ \A p \in Tasks : ~tasks[p].stale
    /\ \A p \in Tasks :
            (provider = "xero" /\ tasks[p].pc = "loaded" /\ idp.refresh_token # 0) =>
                RefreshAccepted(tasks[p].credentials, idp)

\* What holds without any lock: the store ends with the tokens of the
\* execution that committed last, whichever was issued first.
LastWriterWins ==
    (AllStored /\ \E p \in Tasks : tasks[p].committed) =>
        \E p \in Tasks : tasks[p].committed /\ StoredCredentials = tasks[p].credentials

(***************************************************************************)
(* get_journals: the paginated fetch                                       *)
(***************************************************************************)

\* Journals the server holds past the since-date.
MaxJournals == 3

\* Journal lines of one journal.
MaxLines == 1

\* Journals the endpoint serves on one page.
PageSize == 2

\* Page requests of one call against a server that never serves the end.
MaxFetches == 4

\* A server: its journals by JournalNumber 1..n, each with its number of
\* JournalLines, and how it pages: "paged" serves the journals after the
\* offset, "stuck" serves its first page whatever the offset.
Ledgers ==
    [mode : {"paged", "stuck"},
     journals : UNION {[1..n -> 0..MaxLines] : n \in 0..MaxJournals}]

\* {'Journals': [...]} as the server answers a request with this offset
\* (0: no params): the journal numbers of the page.
JournalsPage(l, offset) ==
    LET from == IF l.mode = "stuck" THEN 0 ELSE offset
        upto == IF from + PageSize <= Len(l.journals) THEN from + PageSize
                ELSE Len(l.journals)
    IN  [k \in 1..(IF upto > from THEN upto - from ELSE 0) |-> from + k]

RECURSIVE simplify_journals(_, _)
\* simplify_journals(journals_raw, extracted): one record per journal line,
\* each carrying the journal_number of its journal.
simplify_journals(l, page) ==
    IF page = <<>> THEN <<>>
    ELSE [k \in 1..l.journals[Head(page)] |-> Head(page)]
         \o simplify_journals(l, Tail(page))

AccumulateLast(journal_lines, new_lines) == new_lines

\* journal_lines += new_lines
Accumulate(journal_lines, new_lines) == journal_lines \o new_lines

\* The call: where it is, params['offset'] (0: params is None), journal_lines,
\* its result, and what it did: the offsets it requested and the lines each
\* page gave.
Fetcher(pc, offset, journal_lines, ret, asked, pages) ==
    [pc |-> pc, offset |-> offset, journal_lines |-> journal_lines, ret |-> ret,
     asked |-> asked, pages |-> pages]

IdleFetcher == Fetcher("idle", 0, <<>>, "pending", <<>>, <<>>)

\* One turn of the while loop of get_journals on the answer of
\* main_client.get: "page" (the parsed page), "None" (the request failed, or
\* an empty payload), "no_journals" (JSON without the key 'Journals').
get_journals(f, l, answer) ==
    LET new_lines == simplify_journals(l, JournalsPage(l, f.offset))
        asked == Append(f.asked, f.offset)
    IN  IF answer = "None"
        THEN Fetcher("done", f.offset, f.journal_lines, "None", asked, f.pages)
        ELSE IF answer = "no_journals"
        THEN Fetcher("done", f.offset, f.journal_lines, "KeyError", asked, f.pages)
        ELSE IF Len(new_lines) = 0
        THEN Fetcher("done", f.offset, f.journal_lines, "journal_lines", asked,
                     Append(f.pages, new_lines))
        ELSE Fetcher("loop", new_lines[Len(new_lines)],
                     Accumulate(f.journal_lines, new_lines), "pending", asked,
                     Append(f.pages, new_lines))

PagesRest == ledger = [mode |-> "paged", journals |-> <<>>] /\ fetcher = IdleFetcher

PagesInit == ledger \in Ledgers /\ fetcher = IdleFetcher

\* Lines 217-243: the client and its tokens are looked up; without them the
\* call returns None before any request.
JournalsStart ==
    /\ fetcher.pc = "idle"
    /\ \E ready \in BOOLEAN :
          fetcher' = IF ready THEN [fetcher EXCEPT !.pc = "loop"]
                     ELSE [fetcher EXCEPT !.pc = "done", !.ret = "None"]
    /\ UNCHANGED ledger
    /\ UNCHANGED notPagesVars

\* Lines 245-258: one page request and what the loop does with the answer.
JournalsFetch ==
    /\ fetcher.pc = "loop"
    /\ Len(fetcher.asked) < MaxFetches
    /\ \E answer \in {"page", "None", "no_journals"} :
          fetcher' = get_journals(fetcher, ledger, answer)
    /\ UNCHANGED ledger
    /\ UNCHANGED notPagesVars

PagesNext ==
    \/ JournalsStart
    \/ JournalsFetch

RECURSIVE Flatten(_)
Flatten(pages) == IF pages = <<>> THEN <<>> ELSE Head(pages) \o Flatten(Tail(pages))

Returned == fetcher.pc = "done" /\ fetcher.ret = "journal_lines"

\* C14: against a server that pages its journals down to an empty page the
\* loop ends: every page that gave lines moved the cursor forward, so the
\* requests of one call are at most the journals plus one; the call stops at
\* the first page that gives no normalized line, and what it returns is the
\* lines of the pages before it, page after page.
C14_PagingTerminates ==
    /\ (ledger.mode = "paged" /\ fetcher.pc = "loop") =>
          /\ Len(fetcher.asked) <= fetcher.offset
          /\ fetcher.offset <= Len(ledger.journals)
          /\ Len(fetcher.asked) < MaxFetches
    /\ Returned =>
          /\ fetcher.pages # <<>>
          /\ \A k \in 1..Len(fetcher.pages) :
                (fetcher.pages[k] = <<>>) <=> (k = Len(fetcher.pages))
          /\ fetcher.journal_lines = Flatten(fetcher.pages)

C14_Witness ==
    /\ Returned
    /\ ledger.mode = "paged"
    /\ Len(fetcher.pages) = 3
    /\ Len(fetcher.journal_lines) = 3

\* C15: one call never requests the same offset twice.
C15_NeverSameOffsetTwice ==
    \A j, k \in 1..Len(fetcher.asked) :
        fetcher.asked[j] = fetcher.asked[k] => j = k

\* Against a server that serves the journals after the offset the offsets of
\* one call do differ.
PagedOffsetsDiffer == ledger.mode = "paged" => C15_NeverSameOffsetTwice

\* Every line of every journal the server holds.
AllLines == simplify_journals(ledger, [k \in 1..Len(ledger.journals) |-> k])

\* C16: a finished call returned None, or it returned the lines of every
\* journal the server holds (the server paging by the offset).
C16_NeverPartial ==
    fetcher.pc = "done" =>
        \/ fetcher.ret = "None"
        \/ /\ fetcher.ret = "journal_lines"
           /\ ledger.mode = "paged" => fetcher.journal_lines = AllLines

\* A failed page request does discard what was accumulated.
FailedPageReturnsNone ==
    [][(fetcher.pc = "loop" /\ fetcher'.pc = "done" /\ Len(fetcher'.pages) = Len(fetcher.pages))
          => fetcher'.ret \in {"None", "KeyError"}]_vars

\* What a call returns is a prefix of the server's lines, and all of them
\* when every journal has a line.
ReturnsPrefix ==
    (Returned /\ ledger.mode = "paged") =>
        /\ Len(fetcher.journal_lines) <= Len(AllLines)
        /\ \A k \in 1..Len(fetcher.journal_lines) : fetcher.journal_lines[k] = AllLines[k]
        /\ (\A n \in 1..Len(ledger.journals) : ledger.journals[n] > 0)
              => fetcher.journal_lines = AllLines

(***************************************************************************)
(* web_scrape: the job-polling fetches                                     *)
(***************************************************************************)

\* Largest timeout (seconds) a polling fetch is called with.
MaxTimeout == 3

\* Longest a status GET takes (seconds).
MaxGetTime == 1

\* The seven fetches are one loop; get_uncoded_statement_lines returns a
\* list, the others the decoded 'content'.
Fetches == {"get_uncoded_statement_lines", "get_management_report"}

\* What api_client.get('results') gives: a dict with status 'pending', a
\* list, a dict with 'content', another dict, or None.
Results == {"pending", "list", "content", "dict", "None"}

LoopConditionLate(elapsed, timeout) == elapsed <= timeout

\* while time.time() - start_time < timeout
LoopCondition(elapsed, timeout) == elapsed < timeout

\* A call: the fetch, its timeout, time.time() - start_time, the status GETs
\* (when issued, how long each took, what it gave), the result and the
\* error logged.
Poller(pc, fetch, timeout, elapsed, gets, ret, logged) ==
    [pc |-> pc, fetch |-> fetch, timeout |-> timeout, elapsed |-> elapsed,
     gets |-> gets, ret |-> ret, logged |-> logged]

PollRest == poller = Poller("idle", "get_management_report", 1, 0, <<>>, "pending", "nothing")

\* Lines 74-77: the call starts its clock.
PollStart ==
    /\ poller.pc = "idle"
    /\ \E f \in Fetches, t \in 1..MaxTimeout :
          poller' = Poller("while", f, t, 0, <<>>, "pending", "nothing")
    /\ UNCHANGED notPollVars

\* Lines 78, 90-91: the loop condition fails and the call gives up.
PollTimeout ==
    /\ poller.pc = "while"
    /\ ~LoopCondition(poller.elapsed, poller.timeout)
    /\ poller' = [poller EXCEPT !.pc = "done", !.ret = "None", !.logged = "timed out"]
    /\ UNCHANGED notPollVars

\* Lines 78-88: one turn of the loop: the status GET, which takes some time,
\* and what follows from its result; on 'pending' time.sleep(1).
PollGet ==
    /\ poller.pc = "while"
    /\ LoopCondition(poller.elapsed, poller.timeout)
    /\ \E results \in Results, took \in 0..MaxGetTime :
          LET gets == Append(poller.gets,
                             [at |-> poller.elapsed, took |-> took, results |-> results])
              after == poller.elapsed + took
              returns(ret, logged) ==
                  Poller("done", poller.fetch, poller.timeout, after, gets, ret, logged)
          IN  poller' =
                IF results = "list" /\ poller.fetch = "get_uncoded_statement_lines"
                THEN returns("results", "nothing")
                ELSE IF results \in {"None", "list"}
                THEN returns("None", "API error")
                ELSE IF results = "pending"
                THEN Poller("while", poller.fetch, poller.timeout, after + 1, gets,
                            "pending", "nothing")
                ELSE IF results = "content" /\ poller.fetch # "get_uncoded_statement_lines"
                THEN returns("content", "nothing")
                ELSE returns("None", "timed out")
    /\ UNCHANGED notPollVars

PollNext ==
    \/ PollStart
    \/ PollTimeout
    \/ PollGet

AlwaysPending == \A k \in 1..Len(poller.gets) : poller.gets[k].results = "pending"

\* C17: while every status GET answers 'pending', no GET is issued at or
\* after the timeout, two GETs are one second of sleep apart, the call makes
\* at most one GET per second of its timeout, and when it ends it returns
\* None, has logged the timeout, and the elapsed time has reached the timeout
\* and passed it by no more than the last GET took.
C17_PollingRespectsTimeout ==
    AlwaysPending =>
        /\ \A k \in 1..Len(poller.gets) : poller.gets[k].at < poller.timeout
        /\ \A k \in 1..(Len(poller.gets) - 1) :
              poller.gets[k + 1].at = poller.gets[k].at + poller.gets[k].took + 1
        /\ Len(poller.gets) <= poller.timeout
        /\ poller.pc = "while" => poller.elapsed <= poller.timeout + MaxGetTime
        /\ poller.pc = "done" =>
              /\ poller.ret = "None"
              /\ poller.logged = "timed out"
              /\ poller.elapsed >= poller.timeout
              /\ poller.elapsed <= poller.timeout + MaxGetTime

C17_Witness ==
    /\ AlwaysPending
    /\ poller.pc = "done"
    /\ Len(poller.gets) >= 2
    /\ poller.elapsed > poller.timeout

(***************************************************************************)
(* ApiClient.__init__ and _prepare_url: the base URL and the endpoint      *)
(***************************************************************************)

\* Longest base URL and endpoint, in characters.
MaxLen == 3

\* Strings are sequences over: a letter, the slash, the colon of a scheme.
Chars == {"a", "/", ":"}

Strings == UNION {[1..n -> Chars] : n \in 0..MaxLen}

Slash == <<"/">>

RECURSIVE lstrip(_)
\* endpoint.lstrip('/')
lstrip(s) == IF s # <<>> /\ Head(s) = "/" THEN lstrip(Tail(s)) ELSE s

rstripNothing(s) == s

RECURSIVE rstrip(_)
\* base_url.rstrip("/")
rstrip(s) ==
    IF s # <<>> /\ s[Len(s)] = "/" THEN rstrip(SubSeq(s, 1, Len(s) - 1)) ELSE s

\* _prepare_url(endpoint); an empty base_url is falsy, as None is.
prepare_url(base_url, endpoint) ==
    IF base_url # <<>> THEN base_url \o Slash \o lstrip(endpoint)
    ELSE lstrip(endpoint)

\* A client and its last call of _prepare_url.
Resolver(given, base_url, called, endpoint, url) ==
    [given |-> given, base_url |-> base_url, called |-> called,
     endpoint |-> endpoint, url |-> url]

\* __init__(base_url): the client as constructed with `given`.
NewClient(given) == Resolver(given, rstrip(given), FALSE, <<>>, <<>>)

UrlRest == resolver = NewClient(<<>>)

UrlInit == \E given \in Strings : resolver = NewClient(given)

\* url = self._prepare_url(endpoint), first statement of request().
PrepareUrl ==
    /\ \E endpoint \in Strings :
          resolver' = [resolver EXCEPT !.called = TRUE, !.endpoint = endpoint,
                          !.url = prepare_url(resolver.base_url, endpoint)]
    /\ UNCHANGED notUrlVars

UrlNext ==
    \/ PrepareUrl

\* The client was given a base URL: a string that is more than slashes.
HasBase == rstrip(resolver.given) # <<>>

\* C19: for a client built with a base URL, with or without trailing slash,
\* the endpoint x of a call and '/' + x resolve to the same URL, which is the
\* stored base, one '/', and the endpoint without its leading slashes; the
\* stored base has no trailing slash and is the same whether or not the given
\* base ended in a slash.
C19_JoinIgnoresSeamSlashes ==
    (resolver.called /\ HasBase) =>
        LET x == resolver.endpoint
            base_url == resolver.base_url
        IN  /\ resolver.url = prepare_url(base_url, Slash \o x)
            /\ resolver.url = prepare_url(base_url, lstrip(x))
            /\ resolver.url = base_url \o Slash \o lstrip(x)
            /\ base_url[Len(base_url)] # "/"
            /\ lstrip(x) # <<>> => Head(lstrip(x)) # "/"
            /\ NewClient(resolver.given \o Slash).base_url = base_url
            /\ NewClient(base_url).base_url = base_url

C19_Witness ==
    /\ resolver.called
    /\ resolver.given = <<"a", "/">>
    /\ resolver.endpoint = <<"/", "a">>
    /\ resolver.url = <<"a", "/", "a">>

\* An endpoint with a scheme: a full URL.
Absolute(endpoint) == Len(endpoint) >= 2 /\ endpoint[1] = "a" /\ endpoint[2] = ":"

\* C20: on a client with a base URL an absolute endpoint resolves to itself.
C20_AbsoluteBypassesBase ==
    (resolver.called /\ HasBase /\ Absolute(resolver.endpoint)) =>
        resolver.url = resolver.endpoint

\* What the code does with it: the absolute endpoint is appended to the base.
AbsoluteIsAppended ==
    (resolver.called /\ HasBase /\ Absolute(resolver.endpoint)) =>
        resolver.url = resolver.base_url \o Slash \o resolver.endpoint

(***************************************************************************)
(* Sheet: reading the snapshot, classifying a written value                *)
(***************************************************************************)

\* Rows of the fetched grid.
MaxRows == 2

\* A cell of the snapshot: {} ("empty"), one with a userEnteredValue
\* ("value"), one that also has a formattedValue ("formatted").
Cells == {"empty", "value", "formatted"}

\* cell_array as __init__ and reload build it: rows of one or two cells.
CellArrays ==
    UNION {[1..n -> UNION {[1..w -> Cells] : w \in {1, 2}}] : n \in 0..MaxRows}

NoValue == <<>>

\* The value held at a place of the grid, told apart by its place.
ValueAt(r, c) == <<r, c>>

\* Python's list[i]: i counted from the front, or from the back when
\* negative; 0 where it raises IndexError. The result is the 1-based place.
Subscript(len, i) ==
    IF 0 <= i /\ i < len THEN i + 1
    ELSE IF i < 0 /\ -len <= i THEN len + i + 1
    ELSE 0

\* The place self.cell_array[row][column] reads, <<0, 0>> on IndexError.
Place(array, row, column) ==
    LET r == Subscript(Len(array), row)
        c == IF r = 0 THEN 0 ELSE Subscript(Len(array[r]), column)
    IN  IF c = 0 THEN <<0, 0>> ELSE <<r, c>>

get_value(array, row, column) ==
    LET p == Place(array, row, column)
    IN  IF p = <<0, 0>> \/ array[p[1]][p[2]] = "empty" THEN NoValue
        ELSE ValueAt(p[1], p[2])

get_formatted_value(array, row, column) ==
    LET p == Place(array, row, column)
    IN  IF p = <<0, 0>> THEN NoValue
        ELSE IF array[p[1]][p[2]] # "formatted" THEN get_value(array, row, column)
        ELSE ValueAt(p[1], p[2])

\* Values a caller writes: Python type and content.
Values ==
    [type : {"bool"}, v : {<<"True">>, <<"False">>}]
    \cup [type : {"int"}, v : {<<"0">>, <<"1">>}]
    \cup [type : {"float"}, v : {<<"0.5">>, <<"nan">>}]
    \cup [type : {"str"}, v : {<<>>, <<"=">>, <<"a">>, <<"=", "a">>, <<"a", "=">>}]
    \cup [type : {"NoneType", "list", "dict"}, v : {<<>>}]

\* isinstance(value, t): bool is a subclass of int.
IsInstance(value, t) == value.type = t \/ (t = "int" /\ value.type = "bool")

NoObject == [key |-> "None", v |-> <<>>]

value_to_objectNumberFirst(value) ==
    IF IsInstance(value, "float") \/ IsInstance(value, "int")
    THEN [key |-> "numberValue", v |-> value.v]
    ELSE NoObject

value_to_object(value) ==
    IF IsInstance(value, "bool") THEN [key |-> "boolValue", v |-> value.v]
    ELSE IF IsInstance(value, "float") \/ IsInstance(value, "int")
    THEN [key |-> "numberValue", v |-> value.v]
    ELSE IF IsInstance(value, "str") /\ Len(value.v) # 0
    THEN IF value.v[1] = "=" THEN [key |-> "formulaValue", v |-> value.v]
         ELSE [key |-> "stringValue", v |-> value.v]
    ELSE NoObject

NoLookup == [op |-> "none", row |-> 0, column |-> 0, value |-> NoObject, ret |-> NoValue]

SheetRest == cell_array = <<>> /\ lookup = NoLookup

SheetInit == cell_array \in CellArrays /\ lookup = NoLookup

\* One call on the snapshot:
\* sheet.get_value(row, column) / sheet.get_formatted_value(row, column)
GetValue ==
    /\ lookup = NoLookup
    /\ \E row, column \in -(MaxRows + 1)..(MaxRows + 1), formatted \in BOOLEAN :
          lookup' = [op |-> IF formatted THEN "get_formatted_value" ELSE "get_value",
                     row |-> row, column |-> column, value |-> NoObject,
                     ret |-> IF formatted THEN get_formatted_value(cell_array, row, column)
                             ELSE get_value(cell_array, row, column)]
    /\ UNCHANGED cell_array
    /\ UNCHANGED notSheetVars

\* sheet.value_to_object(value)
ValueToObject ==
    /\ lookup = NoLookup
    /\ \E value \in Values :
          lookup' = [op |-> "value_to_object", row |-> 0, column |-> 0,
                     value |-> value, ret |-> <<value_to_object(value)>>]
    /\ UNCHANGED cell_array
    /\ UNCHANGED notSheetVars

SheetNext ==
    \/ GetValue
    \/ ValueToObject

Reading == lookup.op \in {"get_value", "get_formatted_value"}

\* (row, column) is a cell of the fetched grid that is not empty.
FilledCell ==
    /\ 0 <= lookup.row /\ lookup.row < Len(cell_array)
    /\ 0 <= lookup.column /\ lookup.column < Len(cell_array[lookup.row + 1])
    /\ cell_array[lookup.row + 1][lookup.column + 1] # "empty"

\* C23: get_value and get_formatted_value return None for every (row,
\* column) that is not a cell of the fetched grid and for every empty cell,
\* and otherwise the value of that very cell.
C23_ReadsOnlyItsCell ==
    Reading =>
        IF FilledCell THEN lookup.ret = ValueAt(lookup.row + 1, lookup.column + 1)
        ELSE lookup.ret = NoValue

\* What does hold: the claim for indices that are not negative, and no
\* request made by a read.
ReadsItsCellFromZero ==
    (Reading /\ lookup.row >= 0 /\ lookup.column >= 0) => C23_ReadsOnlyItsCell

ReadMakesNoCall ==
    [][lookup'.op \in {"get_value", "get_formatted_value"} =>
          /\ cell_array' = cell_array
          /\ issued' = issued
          /\ server' = server]_vars

\* C24: value_to_object classifies every value: a boolean as boolValue, an
\* int or float as numberValue, a string starting with '=' as formulaValue,
\* any other non-empty string as stringValue, everything else as None, each
\* with the value itself.
C24_ValueToObjectTotal ==
    lookup.op = "value_to_object" =>
        LET value == lookup.value
            key == CASE value.type = "bool" -> "boolValue"
                     [] value.type \in {"int", "float"} -> "numberValue"
                     [] value.type = "str" /\ value.v # <<>> /\ Head(value.v) = "=" -> "formulaValue"
                     [] value.type = "str" /\ value.v # <<>> -> "stringValue"
                     [] OTHER -> "None"
        IN  /\ Len(lookup.ret) = 1
            /\ lookup.ret[1].key = key
            /\ lookup.ret[1].v = IF key = "None" THEN <<>> ELSE value.v

C24_Witness ==
    /\ lookup.op = "value_to_object"
    /\ lookup.value.type = "bool"
    /\ lookup.ret[1].key = "boolValue"

(***************************************************************************)
(* get_aged_payables: a fetch made of several requests                     *)
(***************************************************************************)

\* Contacts with payables the contacts request can return.
MaxContacts == 2

\* What the call meets: the client row, its tenant id and access token, the
\* contact-groups request (failed, answered without or with a group 'CPI'),
\* the request for the CPI group (failed, answered with an empty
\* 'ContactGroups', answered with contact 1 in the group), the contacts
\* request (failed, or so many contacts) and the report request of each
\* contact (answered or failed).
Dependencies ==
    [client : BOOLEAN, tenant : BOOLEAN, token : BOOLEAN,
     groups : {"None", "no_cpi", "cpi"},
     group : {"None", "empty", "contacts"},
     contacts : {-1} \cup 0..MaxContacts,
     reports : [1..MaxContacts -> BOOLEAN]]

Payables(pc, deps, ret, exc, logged, requested) ==
    [pc |-> pc, deps |-> deps, ret |-> ret, exc |-> exc, logged |-> logged,
     requested |-> requested]

\* The contacts whose report is requested: those of the CPI group when there
\* is one, else all.
Wanted(d) == IF d.groups = "cpi" THEN {1} \cap 1..d.contacts ELSE 1..d.contacts

\* get_aged_payables(xero_client_id, date, month_groups, age_by_due_date)
get_aged_payables(d) ==
    LET failed == {k \in Wanted(d) : ~d.reports[k]}
        first == CHOOSE k \in failed : \A j \in failed : k <= j
        groupsLog == IF d.groups = "None" THEN {"warning"} ELSE {}
    IN  IF ~d.client \/ ~d.tenant \/ ~d.token
        THEN Payables("done", d, "None", "none", {"error"}, {})
        ELSE IF d.groups = "cpi" /\ d.group = "None"
        THEN Payables("done", d, "None", "none", {"error"}, {})
        ELSE IF d.groups = "cpi" /\ d.group = "empty"
        THEN Payables("done", d, "raised", "IndexError", {}, {})
        ELSE IF d.contacts <= 0
        THEN Payables("done", d, "None", "none", groupsLog \cup {"error"}, {})
        ELSE IF failed # {}
        THEN Payables("done", d, "raised", "TypeError", groupsLog,
                      {k \in Wanted(d) : k <= first})
        ELSE Payables("done", d, "report", "none", groupsLog, Wanted(d))

NoDependencies ==
    [client |-> TRUE, tenant |-> TRUE, token |-> TRUE, groups |-> "no_cpi",
     group |-> "contacts", contacts |-> 0, reports |-> [k \in 1..MaxContacts |-> TRUE]]

PayablesRest == payables = Payables("idle", NoDependencies, "pending", "none", {}, {})

AgedPayables ==
    /\ payables.pc = "idle"
    /\ \E d \in Dependencies : payables' = get_aged_payables(d)
    /\ UNCHANGED notPayablesVars

PayablesNext ==
    \/ AgedPayables

\* A request the call makes, or a lookup before it, failed.
DependencyFailed ==
    LET d == payables.deps
    IN  /\ payables.pc = "done"
        /\ \/ ~d.client \/ ~d.tenant \/ ~d.token
           \/ d.groups = "None"
           \/ d.groups = "cpi" /\ d.group = "None"
           \/ d.contacts = -1
           \/ \E k \in payables.requested : ~d.reports[k]

\* C26: when a request get_aged_payables depends on fails, the call logs an
\* error and returns None; it raises nothing and returns no report.
C26_AbortsOnAnyFailure ==
    DependencyFailed =>
        /\ payables.ret = "None"
        /\ payables.exc = "none"
        /\ "error" \in payables.logged

\* What does hold: client, tokens, the CPI group request and the contacts
\* request abort the call as stated; a failed contact-groups request is
\* logged as a warning and the call goes on, and a failed report request
\* raises TypeError.
AbortsOnSomeFailures ==
    LET d == payables.deps
    IN  payables.pc = "done" =>
          /\ (~d.client \/ ~d.tenant \/ ~d.token) =>
                (payables.ret = "None" /\ "error" \in payables.logged)
          /\ (\E k \in payables.requested : ~d.reports[k]) =>
                payables.exc = "TypeError"
          /\ payables.ret = "report" =>
                /\ payables.requested = Wanted(d)
                /\ \A k \in Wanted(d) : d.reports[k]

(***************************************************************************)
(* Folder.navigate_path: failures reported through the message list        *)
(***************************************************************************)

\* Folders of a path.
MaxDepth == 3

\* A folder of the path: found by find_subfolder, or missing and then
\* created by new_child_folder or not.
Paths == UNION {[1..n -> {"found", "creatable", "uncreatable"}] : n \in 0..MaxDepth}

\* automation_messages as the caller passes it: None, or a list, by the
\* severities of its messages.
MessageLists ==
    [given : {FALSE}, list : {<<>>}] \cup [given : {TRUE}, list : {<<>>, <<"warning">>}]

\* if automation_messages: automation_messages.append(AutomationMessage.error(...))
AppendError(messages) ==
    IF messages.given /\ messages.list # <<>>
    THEN [messages EXCEPT !.list = Append(@, "error")]
    ELSE messages

\* if not automation_messages is None: automation_messages.append(AutomationMessage.info(...))
AppendInfo(messages) ==
    IF messages.given THEN [messages EXCEPT !.list = Append(@, "info")] ELSE messages

RECURSIVE navigate_path(_, _, _)
\* navigate_path(path, automation_messages, create_folders): what is
\* returned and the message list afterwards.
navigate_path(path, messages, create_folders) ==
    IF path = <<>> THEN [ret |-> "Folder", messages |-> messages]
    ELSE IF Head(path) = "found"
    THEN navigate_path(Tail(path), messages, create_folders)
    ELSE IF ~create_folders \/ Head(path) = "uncreatable"
    THEN [ret |-> "None", messages |-> AppendError(messages)]
    ELSE navigate_path(Tail(path), AppendInfo(messages), create_folders)

NoNavigation ==
    [pc |-> "idle", path |-> <<>>, create_folders |-> TRUE,
     before |-> [given |-> FALSE, list |-> <<>>],
     ret |-> "pending", messages |-> [given |-> FALSE, list |-> <<>>]]

NavigationRest == navigation = NoNavigation

NavigatePath ==
    /\ navigation.pc = "idle"
    /\ \E path \in Paths, messages \in MessageLists, create_folders \in BOOLEAN :
          LET n == navigate_path(path, messages, create_folders)
          IN  navigation' = [pc |-> "done", path |-> path,
                             create_folders |-> create_folders, before |-> messages,
                             ret |-> n.ret, messages |-> n.messages]
    /\ UNCHANGED notNavigationVars

NavigationNext ==
    \/ NavigatePath

\* The messages the call appended, by severity.
Appended(severity) ==
    Cardinality({k \in (Len(navigation.before.list) + 1)..Len(navigation.messages.list) :
                    navigation.messages.list[k] = severity})

\* Folders of the path the call created.
Created ==
    IF ~navigation.create_folders THEN 0
    ELSE Cardinality({k \in 1..Len(navigation.path) :
                        /\ navigation.path[k] = "creatable"
                        /\ \A j \in 1..k : navigation.path[j] # "uncreatable"})

\* C27: given a list, a navigation that fails returns None with exactly one
\* error message appended, and every folder created appends one info
\* message.
C27_FailureReported ==
    (navigation.pc = "done" /\ navigation.before.given) =>
        /\ navigation.ret = "None" => Appended("error") = 1
        /\ navigation.ret # "None" => Appended("error") = 0
        /\ Appended("info") = Created

\* What does hold: the info messages as stated, and the error message only
\* when the list is not empty at the time of the failure.
ErrorOnlyOnNonEmptyList ==
    (navigation.pc = "done" /\ navigation.before.given) =>
        /\ Appended("info") = Created
        /\ navigation.ret = "None" =>
              Appended("error") = IF navigation.before.list = <<>> /\ Created = 0 THEN 0 ELSE 1
        /\ navigation.ret # "None" => Appended("error") = 0

(***************************************************************************)
(* The retry wrappers of google_sheets, google_docs and google_drive       *)
(***************************************************************************)

\* RETRIES of google_drive.py
DRIVE_RETRIES == 10

Attempts(module) == IF module = "google_drive" THEN DRIVE_RETRIES ELSE RETRIES

\* What execute() raises: TimeoutError, an HttpError by its status, or an
\* exception of another class (a connection reset, an unresolved host, a
\* rejected token refresh).
Raised == {"TimeoutError", "HttpError 500", "HttpError 503", "HttpError 400",
           "HttpError 404", "ConnectionError"}

\* except (HttpError, TimeoutError) as e
Caught(e) == e # "ConnectionError"

\* isinstance(e, TimeoutError) or e.status_code in [500, 503]
Transient(e) == e \in {"TimeoutError", "HttpError 500", "HttpError 503"}

\* One call of a wrapper: its module, the loop index i, the attempts made,
\* what the last attempt raised, the errors logged and the outcome.
Wrapper(pc, module, i, made, last, logged, ret) ==
    [pc |-> pc, module |-> module, i |-> i, attempts |-> made, last |-> last,
     logged |-> logged, ret |-> ret]

WrapperRest == wrapper = Wrapper("idle", "google_sheets", 0, 0, "none", 0, "pending")

\* get(service, **kwargs), batch_update, copy_to, get_request, ... is called.
WrapperCall ==
    /\ wrapper.pc = "idle"
    /\ \E module \in {"google_sheets", "google_docs", "google_drive"} :
          wrapper' = Wrapper("for", module, 0, 0, "none", 0, "pending")
    /\ UNCHANGED notWrapperVars

\* The attempt answers: return data.
AttemptReturns ==
    /\ wrapper.pc = "for"
    /\ wrapper' = [wrapper EXCEPT !.pc = "done", !.attempts = @ + 1, !.last = "none",
                                  !.ret = "data"]
    /\ UNCHANGED notWrapperVars

\* The attempt raises: continue, or log and break to return None, or, for an
\* exception the except clause does not name, leave the wrapper.
AttemptRaises ==
    /\ wrapper.pc = "for"
    /\ \E e \in Raised :
          wrapper' =
            IF ~Caught(e)
            THEN [wrapper EXCEPT !.pc = "done", !.attempts = @ + 1, !.last = e,
                                 !.ret = "raised"]
            ELSE IF wrapper.i < Attempts(wrapper.module) - 1 /\ Transient(e)
            THEN [wrapper EXCEPT !.i = @ + 1, !.attempts = @ + 1, !.last = e]
            ELSE [wrapper EXCEPT !.pc = "done", !.attempts = @ + 1, !.last = e,
                                 !.logged = @ + 1, !.ret = "None"]
    /\ UNCHANGED notWrapperVars

WrapperNext ==
    \/ WrapperCall
    \/ AttemptReturns
    \/ AttemptRaises

\* C30: a wrapper makes at least one and at most RETRIES attempts, attempts
\* again only after a TimeoutError or an HttpError 500 or 503, and ends by
\* returning the data of the attempt that succeeded or, when an attempt
\* fails for good, by logging once and returning None; it never raises.
C30_WrapperBounded ==
    /\ wrapper.attempts <= Attempts(wrapper.module)
    /\ (wrapper.pc = "for" /\ wrapper.attempts > 0) => Transient(wrapper.last)
    /\ wrapper.pc = "done" =>
          /\ wrapper.attempts >= 1
          /\ \/ wrapper.ret = "data" /\ wrapper.logged = 0
             \/ wrapper.ret = "None" /\ wrapper.logged = 1

\* What does hold: all of the above except for an exception that is neither
\* HttpError nor TimeoutError, which leaves the wrapper unlogged.
WrapperBoundedOrRaises ==
    /\ wrapper.attempts <= Attempts(wrapper.module)
    /\ wrapper.pc = "for" => wrapper.attempts < Attempts(wrapper.module)
    /\ (wrapper.pc = "for" /\ wrapper.attempts > 0) => Transient(wrapper.last)
    /\ wrapper.pc = "done" =>
          /\ wrapper.attempts >= 1
          /\ \/ wrapper.ret = "data" /\ wrapper.logged = 0
             \/ wrapper.ret = "None" /\ wrapper.logged = 1 /\ Caught(wrapper.last)
             \/ wrapper.ret = "raised" /\ wrapper.logged = 0 /\ ~Caught(wrapper.last)

(***************************************************************************)
(* Specifications                                                          *)
(***************************************************************************)

\* The proxies as they are when only the ApiClient runs.
ProxyRest == ProxyInit /\ kind = "Spreadsheet"

\* The credential stores as they are when no credential call runs.
CredRest == CredInit /\ provider = "gmail"

InitApi == ApiInit /\ ProxyRest /\ CredRest /\ RaceRest /\ PagesRest /\ PollRest /\ UrlRest /\ SheetRest /\ PayablesRest /\ NavigationRest /\ WrapperRest

SpecApi == InitApi /\ [][ApiNext]_vars

InitProxy == ProxyInit /\ ApiInit /\ CredRest /\ RaceRest /\ PagesRest /\ PollRest /\ UrlRest /\ SheetRest /\ PayablesRest /\ NavigationRest /\ WrapperRest

SpecProxy == InitProxy /\ [][ProxyNext]_vars

InitCred == CredInit /\ ApiInit /\ ProxyRest /\ RaceRest /\ PagesRest /\ PollRest /\ UrlRest /\ SheetRest /\ PayablesRest /\ NavigationRest /\ WrapperRest

SpecCred == InitCred /\ [][CredNext]_vars

InitRace == RaceInit /\ ApiInit /\ ProxyRest /\ PagesRest /\ PollRest /\ UrlRest /\ SheetRest /\ PayablesRest /\ NavigationRest /\ WrapperRest

SpecRace == InitRace /\ [][RaceNext]_vars

InitPages == PagesInit /\ ApiInit /\ ProxyRest /\ CredRest /\ RaceRest /\ PollRest /\ UrlRest /\ SheetRest /\ PayablesRest /\ NavigationRest /\ WrapperRest

SpecPages == InitPages /\ [][PagesNext]_vars

InitPoll == PollRest /\ ApiInit /\ ProxyRest /\ CredRest /\ RaceRest /\ PagesRest /\ UrlRest /\ SheetRest /\ PayablesRest /\ NavigationRest /\ WrapperRest

SpecPoll == InitPoll /\ [][PollNext]_vars

InitUrl == UrlInit /\ ApiInit /\ ProxyRest /\ CredRest /\ RaceRest /\ PagesRest /\ PollRest /\ SheetRest /\ PayablesRest /\ NavigationRest /\ WrapperRest

SpecUrl == InitUrl /\ [][UrlNext]_vars

InitSheet == SheetInit /\ ApiInit /\ ProxyRest /\ CredRest /\ RaceRest /\ PagesRest /\ PollRest /\ UrlRest /\ PayablesRest /\ NavigationRest /\ WrapperRest

SpecSheet == InitSheet /\ [][SheetNext]_vars

InitPayables ==
    PayablesRest /\ ApiInit /\ ProxyRest /\ CredRest /\ RaceRest /\ PagesRest /\ PollRest /\ UrlRest /\ SheetRest /\ NavigationRest /\ WrapperRest

SpecPayables == InitPayables /\ [][PayablesNext]_vars

InitNavigation ==
    NavigationRest /\ ApiInit /\ ProxyRest /\ CredRest /\ RaceRest /\ PagesRest /\ PollRest /\ UrlRest /\ SheetRest /\ PayablesRest /\ WrapperRest

SpecNavigation == InitNavigation /\ [][NavigationNext]_vars

InitWrapper ==
    WrapperRest /\ ApiInit /\ ProxyRest /\ CredRest /\ RaceRest /\ PagesRest /\ PollRest /\ UrlRest /\ SheetRest /\ PayablesRest /\ NavigationRest

SpecWrapper == InitWrapper /\ [][WrapperNext]_vars

====
